---- MODULE Spec2Model ----
(***************************************************************************)
(* A model of the generative-AI call layer of the storyboard tool:         *)
(* the credential / endpoint normalizers, the error classifier, the retry  *)
(* wrapper, the call orchestrator, the connectivity prober and the         *)
(* prompt/response tasks built on them.                                    *)
(*                                                                         *)
(* Strings are TLA+ strings; a JavaScript String.includes is a real        *)
(* substring test.  The localized (Chinese) display texts of the source    *)
(* are written here in ASCII, keeping every digit and punctuation mark of  *)
(* the original (TLA+ string literals hold ASCII only).  A TLA+ string     *)
(* literal cannot hold a backquote either: the apostrophe stands for it.   *)
(***************************************************************************)
EXTENDS Integers, Sequences, FiniteSets, TLC

(***************************************************************************)
(* Bounds of the model.                                                    *)
(***************************************************************************)
\* the largest maxRetries handed to retryOperation when it is called directly
MaxRetriesBound == 3
\* the largest number of script segments handed to inferBatchPrompts
MaxSegments == 3

(***************************************************************************)
(* String helpers (JavaScript built-ins used by the source).               *)
(***************************************************************************)
\* String.prototype.includes
includes(msg, pat) ==
    \E i \in 1..(Len(msg) - Len(pat) + 1) : SubSeq(msg, i, i + Len(pat) - 1) = pat

\* String.prototype.endsWith
endsWith(s, suffix) ==
    /\ Len(suffix) <= Len(s)
    /\ SubSeq(s, Len(s) - Len(suffix) + 1, Len(s)) = suffix

\* the character of s at position i (1-based), "" past the end
CharAt(s, i) == IF i >= 1 /\ i <= Len(s) THEN SubSeq(s, i, i) ELSE ""

\* s.substring(i - 1, j): the characters of s at positions i..j (1-based),
\* as far as s reaches
Slice(s, i, j) == SubSeq(s, i, IF j <= Len(s) THEN j ELSE Len(s))

\* the white space String.prototype.trim and the regular expression \s remove
\* (the ASCII part of it; "\f" stands for the byte-order mark U+FEFF, which
\* trim and the class [\s\uFEFF\xA0] both remove and which a TLA+ literal cannot hold)
WhiteSpace == {" ", "\t", "\n", "\r", "\f"}

RECURSIVE trimStart(_)
trimStart(s) ==
    IF Len(s) > 0 /\ CharAt(s, 1) \in WhiteSpace
    THEN trimStart(SubSeq(s, 2, Len(s)))
    ELSE s

RECURSIVE trimEnd(_)
trimEnd(s) ==
    IF Len(s) > 0 /\ CharAt(s, Len(s)) \in WhiteSpace
    THEN trimEnd(SubSeq(s, 1, Len(s) - 1))
    ELSE s

\* String.prototype.trim
trim(s) == trimEnd(trimStart(s))

\* s.replace(/\/+$/, '')
RECURSIVE stripTrailingSlashes(_)
stripTrailingSlashes(s) ==
    IF Len(s) > 0 /\ CharAt(s, Len(s)) = "/"
    THEN stripTrailingSlashes(SubSeq(s, 1, Len(s) - 1))
    ELSE s

\* s.replace(/pat/g, '') for a literal, non-empty pat: every occurrence,
\* found left to right without overlap, is removed
RECURSIVE removeAll(_, _)
removeAll(s, pat) ==
    LET at == {i \in 1..(Len(s) - Len(pat) + 1) : SubSeq(s, i, i + Len(pat) - 1) = pat}
        first == CHOOSE i \in at : \A j \in at : i <= j
    IN  IF at = {} THEN s
        ELSE SubSeq(s, 1, first - 1) \o removeAll(SubSeq(s, first + Len(pat), Len(s)), pat)

\* Math.pow(2, n) for a natural n
RECURSIVE pow2(_)
pow2(n) == IF n <= 0 THEN 1 ELSE 2 * pow2(n - 1)

RECURSIVE SumSeq(_)
SumSeq(q) == IF q = <<>> THEN 0 ELSE Head(q) + SumSeq(Tail(q))

(***************************************************************************)
(* Key / URL normalizer.                                                   *)
(***************************************************************************)
OfficialEndpoint == "https://generativelanguage.googleapis.com"

\* "no override": the undefined cleanBaseUrl returns
NoOverride == [defined |-> FALSE, url |-> ""]
Override(u) == [defined |-> TRUE, url |-> u]

\* a variant of stripVersionSuffix that knows /v1 only
stripVersionSuffix_v1only(cleaned) ==
    IF endsWith(cleaned, "/v1") THEN SubSeq(cleaned, 1, Len(cleaned) - 3) ELSE cleaned

\* the version suffix step of cleanBaseUrl: /v1beta before /v1, at most one
stripVersionSuffix(cleaned) ==
    IF endsWith(cleaned, "/v1beta") THEN SubSeq(cleaned, 1, Len(cleaned) - 7)
    ELSE IF endsWith(cleaned, "/v1") THEN SubSeq(cleaned, 1, Len(cleaned) - 3)
    ELSE cleaned

\* a variant of cleanBaseUrl without the check for the official endpoint
cleanBaseUrl_keepsOfficial(url) ==
    IF ~url.defined \/ url.url = "" \/ trim(url.url) = "" THEN NoOverride
    ELSE Override(stripTrailingSlashes(stripVersionSuffix(stripTrailingSlashes(trim(url.url)))))

\* cleanBaseUrl(url); an absent url is the record [defined |-> FALSE]
cleanBaseUrl(url) ==
    IF ~url.defined \/ url.url = "" \/ trim(url.url) = "" THEN NoOverride
    ELSE LET c1 == stripTrailingSlashes(trim(url.url))
             c2 == stripTrailingSlashes(stripVersionSuffix(c1))
         IN  IF c2 = OfficialEndpoint THEN NoOverride ELSE Override(c2)

\* a variant of cleanApiKey that forgets to trim
cleanApiKey_untrimmed(key) == key

\* cleanApiKey(key): trim only
cleanApiKey(key) == IF key = "" THEN "" ELSE trim(key)

(***************************************************************************)
(* The older cleanApiKey of services/geminiService.ts.                     *)
(***************************************************************************)
UpperCase == "ABCDEFGHIJKLMNOPQRSTUVWXYZ"
LowerCase == "abcdefghijklmnopqrstuvwxyz"

\* the lower-case form of a character (the i flag of a regular expression)
lowerChar(c) ==
    IF \E i \in 1..26 : CharAt(UpperCase, i) = c
    THEN CharAt(LowerCase, CHOOSE i \in 1..26 : CharAt(UpperCase, i) = c)
    ELSE c

RECURSIVE lower(_)
lower(s) == IF s = "" THEN "" ELSE lowerChar(CharAt(s, 1)) \o lower(SubSeq(s, 2, Len(s)))

\* s.replace(/[\s\uFEFF\xA0]+/g, '')
RECURSIVE removeWhiteSpace(_)
removeWhiteSpace(s) ==
    IF s = "" THEN ""
    ELSE IF CharAt(s, 1) \in WhiteSpace THEN removeWhiteSpace(SubSeq(s, 2, Len(s)))
    ELSE CharAt(s, 1) \o removeWhiteSpace(SubSeq(s, 2, Len(s)))

\* s.replace(/^Bearer\s+/i, ''): the word and the white space after it go
\* when at least one white-space character follows the word
stripBearer(s) ==
    IF lower(Slice(s, 1, 6)) = "bearer" /\ Len(s) >= 7 /\ CharAt(s, 7) \in WhiteSpace
    THEN trimStart(SubSeq(s, 7, Len(s)))
    ELSE s

\* cleanApiKey(key) of the older service
cleanApiKeyLegacy(key) == IF key = "" THEN "" ELSE stripBearer(removeWhiteSpace(key))

(***************************************************************************)
(* Error classifier.                                                       *)
(***************************************************************************)
Msg400 == "Invalid request (400) - the proxy does not support this model name, or needs the role:user field (fix attempted)"
Msg401 == "API Key invalid or unauthorized (401) - check the balance or whether the Key is correct"
Msg403 == "API Key lacks permission (403)"
Msg404 == "Wrong address (404) - the proxy address path does not match"
Msg429 == "Too many requests / quota used up (429)"
Msg500 == "AI service internal error (500)"
Msg503 == "Service temporarily unavailable (503)"
MsgNetwork == "Network connection failed (check the proxy address/VPN/CORS settings)"

\* a variant of classify that has no text for 429
classify_no429(msg) ==
    IF includes(msg, "400") THEN Msg400
    ELSE IF includes(msg, "401") THEN Msg401
    ELSE IF includes(msg, "403") THEN Msg403
    ELSE IF includes(msg, "404") THEN Msg404
    ELSE IF includes(msg, "500") THEN Msg500
    ELSE IF includes(msg, "503") THEN Msg503
    ELSE IF includes(msg, "Failed to fetch") \/ includes(msg, "NetworkError") THEN MsgNetwork
    ELSE msg

\* a variant of classify that looks for 429 first
classify_429first(msg) ==
    IF includes(msg, "429") THEN Msg429
    ELSE IF includes(msg, "400") THEN Msg400
    ELSE IF includes(msg, "401") THEN Msg401
    ELSE IF includes(msg, "403") THEN Msg403
    ELSE IF includes(msg, "404") THEN Msg404
    ELSE IF includes(msg, "500") THEN Msg500
    ELSE IF includes(msg, "503") THEN Msg503
    ELSE IF includes(msg, "Failed to fetch") \/ includes(msg, "NetworkError") THEN MsgNetwork
    ELSE msg

\* the text formatError substitutes for the message msg
classify(msg) ==
    IF includes(msg, "400") THEN Msg400
    ELSE IF includes(msg, "401") THEN Msg401
    ELSE IF includes(msg, "403") THEN Msg403
    ELSE IF includes(msg, "404") THEN Msg404
    ELSE IF includes(msg, "429") THEN Msg429
    ELSE IF includes(msg, "500") THEN Msg500
    ELSE IF includes(msg, "503") THEN Msg503
    ELSE IF includes(msg, "Failed to fetch") \/ includes(msg, "NetworkError") THEN MsgNetwork
    ELSE msg

\* String(n) for an integer n
RECURSIVE natToString(_)
natToString(n) ==
    IF n < 10 THEN CharAt("0123456789", n + 1)
    ELSE natToString(n \div 10) \o CharAt("0123456789", (n % 10) + 1)

numToString(n) == IF n < 0 THEN "-" \o natToString(0 - n) ELSE natToString(n)

\* String(v) for a primitive value or a plain object
toString(v) ==
    CASE v.t = "string" -> v.s
      [] v.t = "number" -> numToString(v.n)
      [] v.t = "boolean" -> IF v.b THEN "true" ELSE "false"
      [] v.t = "null" -> "null"
      [] v.t = "undefined" -> "undefined"
      [] v.t = "object" -> "[object Object]"

\* formatError(error, context): the message of an Error object (a record
\* with a message), String(error) of any other value
formatError(error, context) ==
    context \o ": " \o classify(IF "message" \in DOMAIN error THEN error.message
                                 ELSE toString(error))

(***************************************************************************)
(* Values, errors and outcomes.                                            *)
(*                                                                         *)
(* A JavaScript value is a record tagged by its type t; an Error object    *)
(* carries its message and where it was created: by the operation, during  *)
(* its inv-th invocation, or by the orchestrator.                          *)
(***************************************************************************)
JStr(s) == [t |-> "string", s |-> s]
JNum(n) == [t |-> "number", n |-> n]
JBool(b) == [t |-> "boolean", b |-> b]
JNull == [t |-> "null"]
JUndefined == [t |-> "undefined"]
JArr(items) == [t |-> "array", items |-> items]
JObj(keys, vals) == [t |-> "object", keys |-> keys, vals |-> vals]

Err(by, inv, message) == [by |-> by, inv |-> inv, message |-> message]
NoError == Err("none", 0, "")

NoOutcome == [kind |-> "none", value |-> JUndefined, error |-> NoError]
Return(v) == [kind |-> "return", value |-> v, error |-> NoError]
Raise(e) == [kind |-> "raise", value |-> JUndefined, error |-> e]

(***************************************************************************)
(* JSON.parse, for the part of JSON the sampled responses use: objects,    *)
(* arrays, strings with the escapes \" \\ \/ \n \r \t, integers, true,      *)
(* false and null.  A parser returns [ok, val, next]: whether a value was  *)
(* read, the value, and the position after it.                             *)
(***************************************************************************)
JsonWhiteSpace == {" ", "\t", "\n", "\r"}
Digits == {"0", "1", "2", "3", "4", "5", "6", "7", "8", "9"}

ParseFail == [ok |-> FALSE, val |-> JNull, next |-> 0]
ParseOk(v, n) == [ok |-> TRUE, val |-> v, next |-> n]

RECURSIVE skipWs(_, _)
skipWs(s, i) == IF CharAt(s, i) \in JsonWhiteSpace THEN skipWs(s, i + 1) ELSE i

DigitValue(c) ==
    CASE c = "0" -> 0 [] c = "1" -> 1 [] c = "2" -> 2 [] c = "3" -> 3 [] c = "4" -> 4
      [] c = "5" -> 5 [] c = "6" -> 6 [] c = "7" -> 7 [] c = "8" -> 8 [] c = "9" -> 9

\* the digits of s from i on, read as a number continuing acc
RECURSIVE parseDigits(_, _, _)
parseDigits(s, i, acc) ==
    IF CharAt(s, i) \in Digits
    THEN parseDigits(s, i + 1, 10 * acc + DigitValue(CharAt(s, i)))
    ELSE ParseOk(JNum(acc), i)

\* an integer: an optional minus, then 0 or a digit string without leading 0
parseNumber(s, i) ==
    LET neg == CharAt(s, i) = "-"
        j == IF neg THEN i + 1 ELSE i
    IN  IF CharAt(s, j) \notin Digits THEN ParseFail
        ELSE IF CharAt(s, j) = "0" /\ CharAt(s, j + 1) \in Digits THEN ParseFail
        ELSE LET r == parseDigits(s, j, 0)
             IN  IF neg THEN ParseOk(JNum(0 - r.val.n), r.next) ELSE r

\* the position of the first quote, backslash or control character of s
\* from i on, 0 if there is none
nextSpecial(s, i) ==
    LET special == {j \in i..Len(s) : CharAt(s, j) \in {"\"", "\\", "\n", "\r", "\t"}}
    IN  IF special = {} THEN 0 ELSE CHOOSE j \in special : \A k \in special : j <= k

RECURSIVE parseChars(_, _, _)
RECURSIVE parseCharsTo(_, _, _, _)
RECURSIVE parseEscape(_, _, _, _)

\* the characters of a string literal from i on (after the opening quote):
\* the plain characters up to the next quote, backslash or control character
\* are taken in one piece
parseChars(s, i, acc) == parseCharsTo(s, i, acc, nextSpecial(s, i))

\* the same, p being the position of that next character
parseCharsTo(s, i, acc, p) ==
    IF p = 0 \/ CharAt(s, p) \in {"\n", "\r", "\t"} THEN ParseFail
    ELSE IF CharAt(s, p) = "\"" THEN ParseOk(JStr(acc \o SubSeq(s, i, p - 1)), p + 1)
    ELSE parseEscape(s, p + 2, acc \o SubSeq(s, i, p - 1), CharAt(s, p + 1))

\* the escape whose character after the backslash is e, the literal going
\* on at i
parseEscape(s, i, plain, e) ==
    IF e \in {"\"", "\\", "/"} THEN parseChars(s, i, plain \o e)
    ELSE IF e = "n" THEN parseChars(s, i, plain \o "\n")
    ELSE IF e = "r" THEN parseChars(s, i, plain \o "\r")
    ELSE IF e = "t" THEN parseChars(s, i, plain \o "\t")
    ELSE ParseFail

\* keys/vals with key set to val: a repeated key keeps its place and takes
\* the later value
putMember(obj, key, val) ==
    IF \E k \in 1..Len(obj.keys) : obj.keys[k] = key
    THEN JObj(obj.keys, [k \in 1..Len(obj.keys) |->
                           IF obj.keys[k] = key THEN val ELSE obj.vals[k]])
    ELSE JObj(Append(obj.keys, key), Append(obj.vals, val))

RECURSIVE parseValue(_, _)
RECURSIVE parseElements(_, _, _)
RECURSIVE parseElementsAfter(_, _, _)
RECURSIVE parseMembers(_, _, _)
RECURSIVE parseMembersAfterKey(_, _, _)
RECURSIVE parseMembersAfterValue(_, _, _, _)

\* the elements of an array from i on, i at the start of an element
parseElements(s, i, acc) == parseElementsAfter(s, acc, parseValue(s, i))

\* the same, r being what the element at i parsed to
parseElementsAfter(s, acc, r) ==
    IF ~r.ok THEN ParseFail
    ELSE IF CharAt(s, skipWs(s, r.next)) = ","
         THEN parseElements(s, skipWs(s, skipWs(s, r.next) + 1), Append(acc, r.val))
    ELSE IF CharAt(s, skipWs(s, r.next)) = "]"
         THEN ParseOk(JArr(Append(acc, r.val)), skipWs(s, r.next) + 1)
    ELSE ParseFail

\* the members of an object from i on, i at the opening quote of a key
parseMembers(s, i, obj) ==
    IF CharAt(s, i) # "\"" THEN ParseFail
    ELSE parseMembersAfterKey(s, obj, parseChars(s, i + 1, ""))

\* the same, k being what the key parsed to
parseMembersAfterKey(s, obj, k) ==
    IF ~k.ok \/ CharAt(s, skipWs(s, k.next)) # ":" THEN ParseFail
    ELSE parseMembersAfterValue(s, obj, k.val.s,
                                parseValue(s, skipWs(s, skipWs(s, k.next) + 1)))

\* the same, v being what the value of the member named key parsed to
parseMembersAfterValue(s, obj, key, v) ==
    IF ~v.ok THEN ParseFail
    ELSE IF CharAt(s, skipWs(s, v.next)) = ","
         THEN parseMembers(s, skipWs(s, skipWs(s, v.next) + 1), putMember(obj, key, v.val))
    ELSE IF CharAt(s, skipWs(s, v.next)) = "}"
         THEN ParseOk(putMember(obj, key, v.val), skipWs(s, v.next) + 1)
    ELSE ParseFail

parseValue(s, i) ==
    LET c == CharAt(s, i)
    IN  IF c = "[" THEN
            IF CharAt(s, skipWs(s, i + 1)) = "]"
            THEN ParseOk(JArr(<<>>), skipWs(s, i + 1) + 1)
            ELSE parseElements(s, skipWs(s, i + 1), <<>>)
        ELSE IF c = "{" THEN
            IF CharAt(s, skipWs(s, i + 1)) = "}"
            THEN ParseOk(JObj(<<>>, <<>>), skipWs(s, i + 1) + 1)
            ELSE parseMembers(s, skipWs(s, i + 1), JObj(<<>>, <<>>))
        ELSE IF c = "\"" THEN parseChars(s, i + 1, "")
        ELSE IF c = "-" \/ c \in Digits THEN parseNumber(s, i)
        ELSE IF Slice(s, i, i + 3) = "true" THEN ParseOk(JBool(TRUE), i + 4)
        ELSE IF Slice(s, i, i + 4) = "false" THEN ParseOk(JBool(FALSE), i + 5)
        ELSE IF Slice(s, i, i + 3) = "null" THEN ParseOk(JNull, i + 4)
        ELSE ParseFail

\* r as the result of JSON.parse(text): only white space may follow the value
parsedWhole(text, r) ==
    IF r.ok /\ skipWs(text, r.next) = Len(text) + 1
    THEN [ok |-> TRUE, val |-> r.val]
    ELSE [ok |-> FALSE, val |-> JNull]

\* JSON.parse(text): [ok |-> FALSE] stands for the SyntaxError it throws
JSONparse(text) == parsedWhole(text, parseValue(text, skipWs(text, 1)))

(***************************************************************************)
(* JSON.stringify, for values without undefined members.                   *)
(***************************************************************************)
\* the characters of s as they stand inside a JSON string literal: the
\* plain characters up to the next one that needs an escape in one piece
RECURSIVE escapeChars(_)
escapeChars(s) ==
    LET special == {j \in 1..Len(s) : CharAt(s, j) \in {"\"", "\\", "\n", "\r", "\t"}}
        p == CHOOSE j \in special : \A k \in special : j <= k
        c == CharAt(s, p)
        e == CASE c = "\"" -> "\\\""
               [] c = "\\" -> "\\\\"
               [] c = "\n" -> "\\n"
               [] c = "\r" -> "\\r"
               [] c = "\t" -> "\\t"
    IN  IF special = {} THEN s
        ELSE SubSeq(s, 1, p - 1) \o e \o escapeChars(SubSeq(s, p + 1, Len(s)))

RECURSIVE JSONstringify(_)
RECURSIVE stringifyItems(_, _)
RECURSIVE stringifyMembers(_, _)

\* the items of an array from position i on, separated by commas
stringifyItems(items, i) ==
    IF i > Len(items) THEN ""
    ELSE (IF i > 1 THEN "," ELSE "") \o JSONstringify(items[i]) \o stringifyItems(items, i + 1)

\* the members of an object from position i on, separated by commas
stringifyMembers(obj, i) ==
    IF i > Len(obj.keys) THEN ""
    ELSE (IF i > 1 THEN "," ELSE "") \o "\"" \o escapeChars(obj.keys[i]) \o "\":"
           \o JSONstringify(obj.vals[i]) \o stringifyMembers(obj, i + 1)

JSONstringify(v) ==
    CASE v.t = "string" -> "\"" \o escapeChars(v.s) \o "\""
      [] v.t = "number" -> numToString(v.n)
      [] v.t = "boolean" -> IF v.b THEN "true" ELSE "false"
      [] v.t = "null" -> "null"
      [] v.t = "array" -> "[" \o stringifyItems(v.items, 1) \o "]"
      [] v.t = "object" -> "{" \o stringifyMembers(v, 1) \o "}"

(***************************************************************************)
(* JavaScript operators on values.                                         *)
(***************************************************************************)
\* v[key] for a property name that no built-in prototype defines
getProperty(v, key) ==
    IF v.t = "object" /\ \E k \in 1..Len(v.keys) : v.keys[k] = key
    THEN v.vals[CHOOSE k \in 1..Len(v.keys) : v.keys[k] = key]
    ELSE JUndefined

\* ToBoolean(v)
truthy(v) ==
    CASE v.t = "string" -> v.s # ""
      [] v.t = "number" -> v.n # 0
      [] v.t = "boolean" -> v.b
      [] v.t \in {"null", "undefined"} -> FALSE
      [] OTHER -> TRUE

\* a || b
jsOr(a, b) == IF truthy(a) THEN a ELSE b

\* Array.isArray(v)
isArray(v) == v.t = "array"

\* key in v, for an object
hasProperty(v, key) == \E k \in 1..Len(v.keys) : v.keys[k] = key

\* delete v[key]
deleteProperty(v, key) ==
    LET keep == {k \in 1..Len(v.keys) : v.keys[k] # key}
        Nth(n) == CHOOSE k \in keep : Cardinality({j \in keep : j <= k}) = n
    IN  JObj([n \in 1..Cardinality(keep) |-> v.keys[Nth(n)]],
             [n \in 1..Cardinality(keep) |-> v.vals[Nth(n)]])

\* { ...a, ...b }: the members of a, each replaced in place by b's member of
\* the same key, then b's other members in b's order
RECURSIVE spreadFrom(_, _, _)
spreadFrom(a, b, i) ==
    IF i > Len(b.keys) THEN a
    ELSE spreadFrom(putMember(a, b.keys[i], b.vals[i]), b, i + 1)

spread(a, b) == spreadFrom(a, b, 1)

(***************************************************************************)
(* Program constants.                                                      *)
(***************************************************************************)
\* retryOperation's default maxRetries
DefaultMaxRetries == 3
\* retryOperation's default baseDelay (ms)
DefaultBaseDelay == 2000
\* the pause inferBatchPrompts takes before it builds its request (ms)
BatchSleepMs == 500

(***************************************************************************)
(* Retry wrapper: the pure parts of retryOperation.                        *)
(***************************************************************************)
\* const msg = error.message || String(error); String(new Error("")) is "Error"
retryMsg(error) == IF error.message # "" THEN error.message ELSE "Error"

\* a variant of isTransient that takes every error for a transient one
isTransient_any(msg) == TRUE

\* the transient markers retryOperation looks for
isTransient(msg) ==
    \/ includes(msg, "429")
    \/ includes(msg, "503")
    \/ includes(msg, "Quota exceeded")
    \/ includes(msg, "NetworkError")
    \/ includes(msg, "Failed to fetch")

\* a variant of attemptsRemain that never gives up
attemptsRemain_always(attempt, maxRetries) == TRUE

\* a variant of attemptsRemain that gives up one attempt early
attemptsRemain_early(attempt, maxRetries) == attempt < maxRetries - 1

\* if (attempt < maxRetries)
attemptsRemain(attempt, maxRetries) == attempt < maxRetries

\* a variant of waitTime that stops doubling after the second wait
waitTime_capped(baseDelay, attempt) ==
    IF attempt > 1 THEN baseDelay * 2 ELSE baseDelay * pow2(attempt)

\* a variant of waitTime that grows linearly
waitTime_linear(baseDelay, attempt) == baseDelay * (attempt + 1)

\* const waitTime = baseDelay * Math.pow(2, attempt)
waitTime(baseDelay, attempt) == baseDelay * pow2(attempt)

\* a variant of loopContinues with a strict comparison
loopContinues_strict(attempt, maxRetries) == attempt < maxRetries

\* for (...; attempt <= maxRetries; ...)
loopContinues(attempt, maxRetries) == attempt <= maxRetries

(***************************************************************************)
(* Inputs the model draws from.                                            *)
(***************************************************************************)
\* settings records: a usable credential (bare, or padded with white space,
\* with a proxy endpoint) and two credentials that are empty once normalized
SettingsSamples ==
    { [apiKey |-> "sk-abc123", baseUrl |-> ""],
      [apiKey |-> "  sk-abc123\n", baseUrl |-> "https://proxy.example/v1beta/"],
      [apiKey |-> "", baseUrl |-> ""],
      [apiKey |-> " \t ", baseUrl |-> "https://proxy.example/v1"] }

\* context labels a caller of executeGeminiCall passes
ContextLabels == {"Image generation failed", "Inference failed"}

\* base delays handed to retryOperation when it is called directly
BaseDelays == {500, DefaultBaseDelay}

\* messages of the errors an operation raises: one per transient marker,
\* permanent transport errors, one carrying a transient marker and a
\* permanent code, an unclassified one and the empty message
ErrorMessages ==
    { "got status: 429 Too Many Requests",
      "503 Service Unavailable",
      "Quota exceeded for quota metric",
      "NetworkError when attempting to fetch resource.",
      "TypeError: Failed to fetch",
      "429 Too Many Requests (request 4001)",
      "400 Bad Request",
      "401 Unauthorized",
      "boom",
      "" }

\* values an operation returns
OperationValues == {"v1", "v2"}

\* what one invocation of an opaque operation does: it returns a value or
\* raises an error
OperationOutcomes ==
    [ok : {TRUE}, hasText : {TRUE}, text : OperationValues, message : {""}]
    \cup [ok : {FALSE}, hasText : {FALSE}, text : {""}, message : ErrorMessages]

(***************************************************************************)
(* Prompt/response tasks: the pure parts.                                  *)
(***************************************************************************)
\* the backquote of a Markdown code fence
BackQuote == "'"
Fence == BackQuote \o BackQuote \o BackQuote

\* text.replace(/```json/g, '').replace(/```/g, '').trim()
stripFences(text) == trim(removeAll(removeAll(text, Fence \o "json"), Fence))

\* response.text || fallback; an absent text is hasText = FALSE
textOr(response, fallback) ==
    IF response.hasText /\ response.text # "" THEN response.text ELSE fallback

\* { prompt: "", activeNames: [] }
placeholder == JObj(<<"prompt", "activeNames">>, <<JStr(""), JArr(<<>>)>>)

\* Array(n).fill({ prompt: "", activeNames: [] })
placeholders(n) == JArr([i \in 1..n |-> placeholder])

\* the callback of json.map in inferBatchPrompts, for an item that is not null
batchItem(item) ==
    JObj(<<"prompt", "activeNames">>,
         << jsOr(getProperty(item, "prompt"), JStr("")),
            IF isArray(getProperty(item, "activeCharacterNames"))
            THEN getProperty(item, "activeCharacterNames")
            ELSE IF isArray(getProperty(item, "activeNames"))
                 THEN getProperty(item, "activeNames")
                 ELSE JArr(<<>>) >>)

\* what the operation of inferBatchPrompts returns for a response: reading a
\* property of a null item throws a TypeError, which the empty catch swallows
batchOperation(response, nseg) ==
    LET text == stripFences(textOr(response, "[]"))
        json == JSONparse(text)
    IN  IF json.ok /\ isArray(json.val)
             /\ \A i \in 1..Len(json.val.items) : json.val.items[i].t # "null"
        THEN JArr([i \in 1..Len(json.val.items) |-> batchItem(json.val.items[i])])
        ELSE placeholders(nseg)

\* texts of the responses inferBatchPrompts meets: two entries under either
\* name of the list of names, a fenced array, the empty array, an array of
\* primitives, an array holding null, an object, prose, the empty text
BatchResponseTexts ==
    { "[{\"prompt\":\"a\",\"activeCharacterNames\":[\"Ann\"]},{\"prompt\":\"b\",\"activeNames\":[]}]",
      Fence \o "json\n[{\"prompt\":\"a\"}]\n" \o Fence,
      "[]",
      "[1, \"x\"]",
      "[{\"prompt\":\"a\"}, null]",
      "{\"prompt\":\"a\",\"activeCharacterNames\":[]}",
      "Sorry, I cannot help with that.",
      "" }

\* messages of the errors the transport raises under a task
TaskErrorMessages ==
    { "got status: 429 Too Many Requests",
      "TypeError: Failed to fetch",
      "400 Bad Request",
      "boom" }

\* what the transport does for one request of a task: a response with a
\* text, a response without one, or an error
BatchResponses ==
    [ok : {TRUE}, hasText : {TRUE}, text : BatchResponseTexts, message : {""}]
    \cup [ok : {TRUE}, hasText : {FALSE}, text : {""}, message : {""}]
    \cup [ok : {FALSE}, hasText : {FALSE}, text : {""}, message : TaskErrorMessages]

(***************************************************************************)
(* What the JavaScript engine puts in the errors it throws itself.  The    *)
(* texts differ between engines; the model knows the two most common.      *)
(***************************************************************************)
Engines == {"v8", "spidermonkey"}

\* the message of the SyntaxError JSON.parse throws for a text that is empty
\* or whose first character cannot begin a JSON value: V8 quotes the text
\* (all of it when shorter than 21 characters, else its first 10 characters)
jsonSyntaxError(text, engine) ==
    IF engine = "v8"
    THEN IF text = "" THEN "Unexpected end of JSON input"
         ELSE IF Len(text) < 21
              THEN "Unexpected token '" \o CharAt(text, 1) \o "', \"" \o text
                     \o "\" is not valid JSON"
              ELSE "Unexpected token '" \o CharAt(text, 1) \o "', \"" \o Slice(text, 1, 10)
                     \o "\"... is not valid JSON"
    ELSE IF text = "" THEN "JSON.parse: unexpected end of data at line 1 column 1 of the JSON data"
         ELSE "JSON.parse: unexpected character at line 1 column 1 of the JSON data"

\* the message of the TypeError thrown for reading property key of null
nullPropertyError(key, engine) ==
    IF engine = "v8" THEN "Cannot read properties of null (reading '" \o key \o "')"
    ELSE "json is null"

\* what an operation does once the transport has answered: it returns val or
\* throws an error with the given message
OpReturn(val) == [ok |-> TRUE, val |-> val, message |-> ""]
OpThrow(message) == [ok |-> FALSE, val |-> JUndefined, message |-> message]

\* what the transport does for one request of a task that reads the text of
\* the response: a response with a text, one without, or an error
TextResponses(texts) ==
    [ok : {TRUE}, hasText : {TRUE}, text : texts, message : {""}]
    \cup [ok : {TRUE}, hasText : {FALSE}, text : {""}, message : {""}]
    \cup [ok : {FALSE}, hasText : {FALSE}, text : {""}, message : TaskErrorMessages]

(***************************************************************************)
(* breakdownScript: the pure parts.                                        *)
(***************************************************************************)
\* s.split(sep) for a one-character sep
RECURSIVE split(_, _)
split(s, sep) ==
    LET at == {i \in 1..Len(s) : CharAt(s, i) = sep}
        first == CHOOSE i \in at : \A j \in at : i <= j
    IN  IF at = {} THEN <<s>>
        ELSE <<SubSeq(s, 1, first - 1)>> \o split(SubSeq(s, first + 1, Len(s)), sep)

\* a variant of scriptLines that keeps the blank lines
scriptLines_keepsBlank(scriptText) ==
    JArr([i \in 1..Len(split(scriptText, "\n")) |-> JStr(split(scriptText, "\n")[i])])

\* scriptText.split('\n').filter(l => l.trim().length > 0)
scriptLines(scriptText) ==
    JArr([i \in 1..Len(SelectSeq(split(scriptText, "\n"), LAMBDA l : Len(trim(l)) > 0)) |->
            JStr(SelectSeq(split(scriptText, "\n"), LAMBDA l : Len(trim(l)) > 0)[i])])

\* the operation of breakdownScript: the parsed text, whatever it is
breakdownOperation(response, engine) ==
    LET text == stripFences(textOr(response, "[]"))
        json == JSONparse(text)
    IN  IF json.ok THEN OpReturn(json.val) ELSE OpThrow(jsonSyntaxError(text, engine))

\* scripts handed to breakdownScript: empty, two lines, lines separated by
\* blank and white-space-only lines, padded lines, lines ending in CR LF
ScriptSamples == {"", "a\nb", "a\n\n \t\nb\n", " x \n\ty", "one\r\ntwo"}

\* texts of the responses breakdownScript meets: an array of strings, bare or
\* fenced, the empty array, an object, prose, prose naming a status code
BreakdownResponseTexts ==
    { "[\"s1\",\"s2\"]",
      Fence \o "json\n[\"s1\"]\n" \o Fence,
      "[]",
      "{\"shots\":[\"s1\"]}",
      "Sorry, I cannot help with that.",
      "Error 503" }

(***************************************************************************)
(* analyzeRoles: the pure parts.                                           *)
(***************************************************************************)
\* the callback of parsed.map in analyzeRoles, for an item that is not null
roleItem(c) ==
    JObj(<<"id", "name", "description">>,
         << JStr(""),
            jsOr(getProperty(c, "name"), JStr("unknown")),
            jsOr(getProperty(c, "description"), JStr("unknown")) >>)

\* the operation of analyzeRoles: a text that does not parse, a value that is
\* no array and an array holding null (a TypeError, caught) all give []
rolesOperation(response) ==
    LET text == stripFences(textOr(response, "[]"))
        parsed == JSONparse(text)
    IN  IF parsed.ok /\ isArray(parsed.val)
             /\ \A i \in 1..Len(parsed.val.items) : parsed.val.items[i].t # "null"
        THEN OpReturn(JArr([i \in 1..Len(parsed.val.items) |-> roleItem(parsed.val.items[i])]))
        ELSE OpReturn(JArr(<<>>))

\* texts of the responses analyzeRoles meets: two roles, one without a
\* description, the empty array, an array holding null, an object, prose
RoleResponseTexts ==
    { "[{\"name\":\"Ann\",\"description\":\"tall\"},{\"name\":\"Bob\"}]",
      "[]",
      "[null]",
      "{\"name\":\"Ann\"}",
      "Sorry, I cannot help with that." }

(***************************************************************************)
(* inferFrameData: the pure parts.                                         *)
(***************************************************************************)
\* the object inferFrameData builds from the parsed value json
frameResult(json) ==
    JObj(<<"prompt", "activeNames">>,
         << jsOr(getProperty(json, "prompt"), JStr("")),
            IF isArray(getProperty(json, "activeCharacterNames"))
            THEN getProperty(json, "activeCharacterNames")
            ELSE JArr(<<>>) >>)

\* a variant of frameOperation that answers every failure with the defaults
frameOperation_swallows(response, engine) ==
    LET text == stripFences(textOr(response, "{}"))
        json == JSONparse(text)
    IN  IF json.ok /\ json.val.t # "null" THEN OpReturn(frameResult(json.val))
        ELSE OpReturn(frameResult(JObj(<<>>, <<>>)))

\* the operation of inferFrameData: JSON.parse outside any try, then the
\* properties of the parsed value (a TypeError when it is null)
frameOperation(response, engine) ==
    LET text == stripFences(textOr(response, "{}"))
        json == JSONparse(text)
    IN  IF ~json.ok THEN OpThrow(jsonSyntaxError(text, engine))
        ELSE IF json.val.t = "null" THEN OpThrow(nullPropertyError("prompt", engine))
        ELSE OpReturn(frameResult(json.val))

\* texts of the responses inferFrameData meets: the object asked for, bare or
\* fenced, an object without the fields, an array, null, prose, prose naming
\* a status code
FrameResponseTexts ==
    { "{\"activeCharacterNames\":[\"Ann\"],\"prompt\":\"a\"}",
      Fence \o "json\n{\"prompt\":\"a\"}\n" \o Fence,
      "{}",
      "[]",
      "null",
      "Sorry, I cannot help with that.",
      "Error 503" }

(***************************************************************************)
(* generateImage: the pure parts.  A response is a JavaScript value.       *)
(***************************************************************************)
\* v?.key
optGet(v, key) == IF v.t \in {"null", "undefined"} THEN JUndefined ELSE getProperty(v, key)

\* v?.[0]
optFirst(v) ==
    IF v.t = "array" /\ Len(v.items) > 0 THEN v.items[1] ELSE JUndefined

\* part.inlineData && part.inlineData.data, as a condition
hasPayload(part) ==
    /\ truthy(getProperty(part, "inlineData"))
    /\ truthy(getProperty(getProperty(part, "inlineData"), "data"))

\* 'data:image/png;base64,' followed by the payload
dataUrl(part) ==
    JStr("data:image/png;base64," \o getProperty(getProperty(part, "inlineData"), "data").s)

\* a variant of imageOperation that looks at the stop reason first
imageOperation_reasonFirst(response) ==
    LET candidate == optFirst(getProperty(response, "candidates"))
        parts == optGet(optGet(candidate, "content"), "parts")
        found == IF truthy(parts) THEN {i \in 1..Len(parts.items) : hasPayload(parts.items[i])}
                 ELSE {}
    IN  IF truthy(optGet(candidate, "finishReason"))
        THEN OpThrow("Generation blocked (" \o optGet(candidate, "finishReason").s \o ")")
        ELSE IF found # {}
        THEN OpReturn(dataUrl(parts.items[CHOOSE i \in found : \A j \in found : i <= j]))
        ELSE OpThrow("API returned empty data")

\* the operation of generateImage after the response arrived
imageOperation(response) ==
    LET candidate == optFirst(getProperty(response, "candidates"))
        parts == optGet(optGet(candidate, "content"), "parts")
        found == IF truthy(parts) THEN {i \in 1..Len(parts.items) : hasPayload(parts.items[i])}
                 ELSE {}
    IN  IF found # {}
        THEN OpReturn(dataUrl(parts.items[CHOOSE i \in found : \A j \in found : i <= j]))
        ELSE IF truthy(optGet(candidate, "finishReason"))
        THEN OpThrow("Generation blocked (" \o optGet(candidate, "finishReason").s \o ")")
        ELSE OpThrow("API returned empty data")

\* the parts of a response: a text part and an inline image with payload data
TextPart == JObj(<<"text">>, <<JStr("a picture")>>)
ImagePart(data) ==
    JObj(<<"inlineData">>, <<JObj(<<"mimeType", "data">>, <<JStr("image/png"), JStr(data)>>)>>)

\* a candidate with content parts and a stop reason, either of them optional
Candidate(parts) == JObj(<<"content">>, <<JObj(<<"parts">>, <<JArr(parts)>>)>>)
StoppedCandidate(parts, reason) ==
    JObj(<<"content", "finishReason">>, <<JObj(<<"parts">>, <<JArr(parts)>>), JStr(reason)>>)
BareCandidate(reason) == JObj(<<"finishReason">>, <<JStr(reason)>>)

ImageResponse(candidates) == JObj(<<"candidates">>, <<JArr(candidates)>>)

\* responses generateImage meets
ImageBodies ==
    { ImageResponse(<<Candidate(<<ImagePart("AAAA")>>)>>),
      ImageResponse(<<StoppedCandidate(<<TextPart, ImagePart("AAAA"), ImagePart("BBBB")>>, "STOP")>>),
      ImageResponse(<<StoppedCandidate(<<ImagePart("")>>, "SAFETY")>>),
      ImageResponse(<<StoppedCandidate(<<TextPart>>, "MAX_TOKENS"),
                      Candidate(<<ImagePart("CCCC")>>)>>),
      ImageResponse(<<BareCandidate("PROHIBITED_CONTENT")>>),
      ImageResponse(<<Candidate(<<TextPart>>)>>),
      ImageResponse(<<Candidate(<<>>)>>),
      ImageResponse(<<>>),
      JObj(<<>>, <<>>) }

\* what the transport does for one request of generateImage
ImageResponses ==
    [ok : {TRUE}, hasText : {FALSE}, text : {""}, message : {""}, body : ImageBodies]
    \cup [ok : {FALSE}, hasText : {FALSE}, text : {""}, message : TaskErrorMessages,
          body : {JUndefined}]

(***************************************************************************)
(* State.                                                                  *)
(*                                                                         *)
(* calls[c] is the state of one asynchronous call: of retryOperation, of   *)
(* executeGeminiCall, or of a task built on it.  A call is suspended only  *)
(* where the source awaits: on the operation (pc = "await_op"), on a       *)
(* backoff sleep (pc = "backoff") and on a task's own sleep.               *)
(***************************************************************************)
\* probe is the state of one call of testApiConnection; unit is one
\* application of a pure function to a sampled input; localStorage is the
\* browser's storage and loaded what getSettingsSync last returned; form is
\* the state of the settings form (SettingsModal)
VARIABLES calls, probe, unit, localStorage, loaded, form

vars == <<calls, probe, unit, localStorage, loaded, form>>

CallIds == {1, 2}

NoClient == [built |-> FALSE, apiKey |-> "", baseUrl |-> NoOverride, authorization |-> ""]

IdleCall ==
    [ pc |-> "idle",            \* idle, task_sleep, await_op, backoff, done
      entry |-> "none",         \* the function the caller invoked
      settings |-> [apiKey |-> "", baseUrl |-> ""],
      contextName |-> "",
      nseg |-> 0,               \* scripts.length of inferBatchPrompts
      script |-> "",            \* scriptText of breakdownScript
      engine |-> "none",        \* the JavaScript engine the task runs on
      maxRetries |-> 0,
      baseDelay |-> 0,
      attempt |-> 0,            \* retryOperation's loop variable
      lastError |-> NoError,
      client |-> NoClient,      \* the client createClient built
      presleep |-> 0,           \* what the task slept before its request (ms)
      transports |-> <<>>,      \* what the transport did on every invocation
      log |-> <<>>,             \* the outcome of every invocation of the operation
      waits |-> <<>>,           \* the duration of every backoff sleep
      nformat |-> 0,            \* how often formatError was applied
      outcome |-> NoOutcome ]   \* what the caller receives

(***************************************************************************)
(* createClient(apiKey, baseUrl)                                           *)
(***************************************************************************)
createClient(apiKey, baseUrl) ==
    [built |-> TRUE, apiKey |-> apiKey, baseUrl |-> baseUrl,
     authorization |-> "Bearer " \o apiKey]

(***************************************************************************)
(* The operation a call runs: an opaque one returns or raises what the     *)
(* transport did.                                                          *)
(***************************************************************************)
\* the outcome of invocation number inv of an operation that did o
opResult(inv, o) ==
    IF o.ok THEN Return(o.val) ELSE Raise(Err("operation", inv, o.message))

\* the outcome of the invocation number inv of r's operation, given what the
\* transport did
operationOutcome(r, inv, transport) ==
    IF ~transport.ok THEN Raise(Err("operation", inv, transport.message))
    ELSE IF r.entry = "inferBatchPrompts" THEN Return(batchOperation(transport, r.nseg))
    ELSE IF r.entry = "breakdownScript"
         THEN opResult(inv, breakdownOperation(transport, r.engine))
    ELSE IF r.entry = "analyzeRoles" THEN opResult(inv, rolesOperation(transport))
    ELSE IF r.entry = "inferFrameData"
         THEN opResult(inv, frameOperation(transport, r.engine))
    ELSE IF r.entry = "generateImage" THEN opResult(inv, imageOperation(transport.body))
    ELSE Return(JStr(transport.text))

\* what the transport may do on an invocation of r's operation
transportOutcomes(r) ==
    IF r.entry = "inferBatchPrompts" THEN BatchResponses
    ELSE IF r.entry = "breakdownScript" THEN TextResponses(BreakdownResponseTexts)
    ELSE IF r.entry = "analyzeRoles" THEN TextResponses(RoleResponseTexts)
    ELSE IF r.entry = "inferFrameData" THEN TextResponses(FrameResponseTexts)
    ELSE IF r.entry = "generateImage" THEN ImageResponses
    ELSE OperationOutcomes

(***************************************************************************)
(* How a call settles, from the task down to the retry loop.               *)
(***************************************************************************)
\* a variant of taskSettles in which inferBatchPrompts has no catch
taskSettles_propagates(r, out) == [r EXCEPT !.pc = "done", !.outcome = out]

\* a variant of taskSettles in which analyzeRoles catches an error and
\* returns the empty list
taskSettles_rolesSwallow(r, out) ==
    IF r.entry = "inferBatchPrompts" /\ out.kind = "raise"
    THEN [r EXCEPT !.pc = "done", !.outcome = Return(placeholders(r.nseg))]
    ELSE IF r.entry = "breakdownScript" /\ out.kind = "raise"
    THEN [r EXCEPT !.pc = "done", !.outcome = Return(scriptLines(r.script))]
    ELSE IF r.entry = "analyzeRoles" /\ out.kind = "raise"
    THEN [r EXCEPT !.pc = "done", !.outcome = Return(JArr(<<>>))]
    ELSE [r EXCEPT !.pc = "done", !.outcome = out]

\* executeGeminiCall returned or raised out to its caller: an opaque caller
\* receives it, inferBatchPrompts catches an error and returns placeholders,
\* breakdownScript catches an error and returns the lines of the script
taskSettles(r, out) ==
    IF r.entry = "inferBatchPrompts" /\ out.kind = "raise"
    THEN [r EXCEPT !.pc = "done", !.outcome = Return(placeholders(r.nseg))]
    ELSE IF r.entry = "breakdownScript" /\ out.kind = "raise"
    THEN [r EXCEPT !.pc = "done", !.outcome = Return(scriptLines(r.script))]
    ELSE [r EXCEPT !.pc = "done", !.outcome = out]

\* a variant of executeSettles that lets the original error through
executeSettles_rethrow(r, out) == taskSettles(r, out)

\* executeGeminiCall's try/catch around retryOperation: a raised error is
\* classified and a new Error carrying the classified message is raised
executeSettles(r, out) ==
    IF out.kind = "raise"
    THEN taskSettles([r EXCEPT !.nformat = @ + 1],
                     Raise(Err("executeGeminiCall", 0, formatError(out.error, r.contextName))))
    ELSE taskSettles(r, out)

\* retryOperation returned or raised
retrySettles(r, out) ==
    IF r.entry = "retryOperation"
    THEN [r EXCEPT !.pc = "done", !.outcome = out]
    ELSE executeSettles(r, out)

\* retryOperation's loop head: invoke the operation, or leave the loop and
\* throw lastError
enterLoop(r) ==
    IF loopContinues(r.attempt, r.maxRetries)
    THEN [r EXCEPT !.pc = "await_op"]
    ELSE retrySettles(r, Raise(r.lastError))

\* retryOperation's catch block
catchBlock(r, error) ==
    LET r1 == [r EXCEPT !.lastError = error]
    IN  IF isTransient(retryMsg(error)) /\ attemptsRemain(r.attempt, r.maxRetries)
        THEN [r1 EXCEPT !.pc = "backoff",
                        !.waits = Append(@, waitTime(r.baseDelay, r.attempt))]
        ELSE retrySettles(r1, Raise(error))

\* retryOperation(operation, maxRetries, baseDelay) up to its first await
retryOperation(r, maxRetries, baseDelay) ==
    enterLoop([r EXCEPT !.maxRetries = maxRetries, !.baseDelay = baseDelay,
                        !.attempt = 0, !.lastError = NoError])

\* executeGeminiCall(settings, operation, contextName) up to its first await
executeGeminiCall(r, settings, contextName) ==
    LET key == cleanApiKey(settings.apiKey)
        r1 == [r EXCEPT !.settings = settings, !.contextName = contextName]
    IN  IF key = ""
        THEN taskSettles(r1, Raise(Err("executeGeminiCall", 0, "API Key not configured")))
        ELSE LET baseUrl == cleanBaseUrl([defined |-> TRUE, url |-> settings.baseUrl])
                 ai == createClient(key, baseUrl)
             IN  retryOperation([r1 EXCEPT !.client = ai],
                                DefaultMaxRetries, DefaultBaseDelay)

(***************************************************************************)
(* Connectivity prober: testApiConnection.                                 *)
(***************************************************************************)
\* DEFAULT_TEXT_MODELS.map(m => m.value)
DEFAULT_TEXT_MODELS ==
    <<"gemini-2.5-pro", "gemini-3-pro-preview", "gemini-1.5-pro", "gemini-2.5-flash">>

\* [...new Set(list)]: duplicates dropped, first-seen order kept
RECURSIVE dedup(_)
dedup(list) ==
    IF list = <<>> THEN <<>>
    ELSE LET init == dedup(SubSeq(list, 1, Len(list) - 1))
             last == list[Len(list)]
         IN  IF \E i \in 1..Len(init) : init[i] = last THEN init ELSE Append(init, last)

\* a variant of modelsToTry that forgets to de-duplicate
modelsToTry_duplicates(priorityModels) == priorityModels \o DEFAULT_TEXT_MODELS

\* const modelsToTry = [...new Set([...priorityModels, ...defaultModelValues])]
modelsToTry(priorityModels) == dedup(priorityModels \o DEFAULT_TEXT_MODELS)

\* priority lists a caller passes: none, the selected built-in model, a custom
\* model, an empty selection, a custom model and a built-in one
PriorityModelSamples ==
    { <<>>, <<"gemini-1.5-pro">>, <<"my-model">>, <<"">>, <<"my-model", "gemini-2.5-pro">> }

\* credentials handed to testApiConnection
ProbeKeys == {"sk-abc123", " "}

\* endpoints handed to testApiConnection
ProbeUrls == {"https://proxy.example/v1"}

\* messages of the errors a failed probe raises
ProbeErrorMessages == {"401 Unauthorized", "404 Not Found", "TypeError: Failed to fetch"}

IdleProbe ==
    [ pc |-> "idle",           \* idle, await_probe, done
      apiKey |-> "",
      priorityModels |-> <<>>,
      list |-> <<>>,           \* modelsToTry
      working |-> {},          \* the models whose probe succeeds (the provider's side)
      idx |-> 0,               \* the position in list of the candidate being probed
      lastError |-> NoError,
      client |-> NoClient,
      log |-> <<>>,            \* every request sent: the model and how it ended
      nformat |-> 0,
      outcome |-> NoOutcome ]

\* the position of the next candidate at or after i that is not skipped by
\* "if(!modelName) continue", Len(list) + 1 when there is none
RECURSIVE nextCandidate(_, _)
nextCandidate(list, i) ==
    IF i > Len(list) THEN Len(list) + 1
    ELSE IF list[i] = "" THEN nextCandidate(list, i + 1)
    ELSE i

\* what testApiConnection throws after its loop: formatError(lastError, ...);
\* String(null) is "null"
probeFailure(lastError) ==
    Raise(Err("testApiConnection", 0,
              formatError(IF lastError = NoError THEN Err("none", 0, "null") ELSE lastError,
                          "All model connection tests failed")))

\* the for loop of testApiConnection from position i on: send the request for
\* the next candidate, or leave the loop and throw
probeLoop(q, i) ==
    LET j == nextCandidate(q.list, i)
    IN  IF j <= Len(q.list)
        THEN [q EXCEPT !.pc = "await_probe", !.idx = j]
        ELSE [q EXCEPT !.pc = "done", !.idx = j, !.nformat = @ + 1,
                       !.outcome = probeFailure(q.lastError)]

\* testApiConnection(apiKey, baseUrl, priorityModels) up to its first await
testApiConnection(q, apiKey, baseUrl, priorityModels) ==
    LET cleanKey == cleanApiKey(apiKey)
        cleanUrl == cleanBaseUrl([defined |-> TRUE, url |-> baseUrl])
        q1 == [q EXCEPT !.apiKey = apiKey, !.priorityModels = priorityModels]
    IN  IF cleanKey = ""
        THEN [q1 EXCEPT !.pc = "done",
                        !.outcome = Raise(Err("testApiConnection", 0, "API Key is empty"))]
        ELSE probeLoop([q1 EXCEPT !.client = createClient(cleanKey, cleanUrl),
                                  !.list = modelsToTry(priorityModels),
                                  !.lastError = NoError],
                       1)

\* a variant of probeSettled that returns the head of the list on success
probeSettled_returnsFirst(q, ok, message) ==
    LET n == Len(q.log) + 1
        error == Err("probe", n, message)
    IN  IF ok
        THEN [q EXCEPT !.pc = "done",
                       !.log = Append(@, [model |-> q.list[q.idx], ok |-> TRUE, error |-> NoError]),
                       !.outcome = Return(JStr(q.list[1]))]
        ELSE probeLoop([q EXCEPT !.log = Append(@, [model |-> q.list[q.idx], ok |-> FALSE, error |-> error]),
                                 !.lastError = error],
                       q.idx + 1)

\* a variant of probeSettled that keeps the first failure instead of the last
probeSettled_keepsFirstError(q, ok, message) ==
    LET n == Len(q.log) + 1
        error == Err("probe", n, message)
    IN  IF ok
        THEN [q EXCEPT !.pc = "done",
                       !.log = Append(@, [model |-> q.list[q.idx], ok |-> TRUE, error |-> NoError]),
                       !.outcome = Return(JStr(q.list[q.idx]))]
        ELSE probeLoop([q EXCEPT !.log = Append(@, [model |-> q.list[q.idx], ok |-> FALSE, error |-> error]),
                                 !.lastError = IF q.lastError = NoError THEN error ELSE q.lastError],
                       q.idx + 1)

\* the request for candidate q.list[q.idx] ended: return modelName, or the
\* catch block and the next round of the loop
probeSettled(q, ok, message) ==
    LET modelName == q.list[q.idx]
        n == Len(q.log) + 1
        error == Err("probe", n, message)
    IN  IF ok
        THEN [q EXCEPT !.pc = "done",
                       !.log = Append(@, [model |-> modelName, ok |-> TRUE, error |-> NoError]),
                       !.outcome = Return(JStr(modelName))]
        ELSE probeLoop([q EXCEPT !.log = Append(@, [model |-> modelName, ok |-> FALSE, error |-> error]),
                                 !.lastError = error],
                       q.idx + 1)

(***************************************************************************)
(* Actions.                                                                *)
(***************************************************************************)
\* no pure function under test
IdleUnit == [fn |-> "none", stage |-> "input"]

\* nothing stored under the settings key
EmptyStorage ==
    [settings |-> [present |-> FALSE, text |-> ""],
     projects |-> [present |-> FALSE, text |-> ""]]

\* the settings form is not mounted
NoForm ==
    [ isOpen |-> FALSE,
      localSettings |-> [apiKey |-> "", textModel |-> "", customTextModels |-> <<>>],
      stored |-> [apiKey |-> "", textModel |-> "", customTextModels |-> <<>>],
      testing |-> FALSE,
      keyStatus |-> "null",
      customModelInput |-> "",
      test |-> [started |-> FALSE, running |-> FALSE, key |-> "", ok |-> FALSE] ]

\* getSettingsSync has not been called
NotLoaded ==
    [called |-> FALSE, ok |-> FALSE, val |-> JUndefined,
     from |-> [present |-> FALSE, text |-> ""]]

Init ==
    /\ calls = [c \in CallIds |-> IdleCall]
    /\ probe = IdleProbe
    /\ unit = IdleUnit
    /\ localStorage = EmptyStorage
    /\ loaded = NotLoaded
    /\ form = NoForm

\* a caller invokes retryOperation with an opaque operation
CallRetryOperation(c) ==
    /\ calls[c].pc = "idle"
    /\ \E maxRetries \in 0..MaxRetriesBound, baseDelay \in BaseDelays :
          calls' = [calls EXCEPT ![c] =
                      retryOperation([@ EXCEPT !.entry = "retryOperation"],
                                     maxRetries, baseDelay)]
    /\ UNCHANGED <<probe, unit, localStorage, loaded, form>>

\* a caller invokes executeGeminiCall with an opaque operation
CallExecuteGeminiCall(c) ==
    /\ calls[c].pc = "idle"
    /\ \E settings \in SettingsSamples, contextName \in ContextLabels :
          calls' = [calls EXCEPT ![c] =
                      executeGeminiCall([@ EXCEPT !.entry = "executeGeminiCall"],
                                        settings, contextName)]
    /\ UNCHANGED <<probe, unit, localStorage, loaded, form>>

\* a caller invokes inferBatchPrompts: await sleep(500)
CallInferBatchPrompts(c) ==
    /\ calls[c].pc = "idle"
    /\ \E settings \in SettingsSamples, nseg \in 0..MaxSegments :
          calls' = [calls EXCEPT ![c] =
                      [@ EXCEPT !.entry = "inferBatchPrompts", !.pc = "task_sleep",
                                !.settings = settings, !.nseg = nseg]]
    /\ UNCHANGED <<probe, unit, localStorage, loaded, form>>

\* the sleep of inferBatchPrompts ends: the prompt is built and
\* executeGeminiCall runs up to its first await
TaskSleepEnds(c) ==
    /\ calls[c].pc = "task_sleep"
    /\ calls' = [calls EXCEPT ![c] =
                  executeGeminiCall([@ EXCEPT !.presleep = BatchSleepMs],
                                    @.settings, "Batch inference failed")]
    /\ UNCHANGED <<probe, unit, localStorage, loaded, form>>

\* a caller invokes breakdownScript: the prompt is built and
\* executeGeminiCall runs up to its first await
CallBreakdownScript(c) ==
    /\ calls[c].pc = "idle"
    /\ \E settings \in SettingsSamples, scriptText \in ScriptSamples, engine \in Engines :
          calls' = [calls EXCEPT ![c] =
                      executeGeminiCall([@ EXCEPT !.entry = "breakdownScript",
                                                  !.script = scriptText,
                                                  !.engine = engine],
                                        settings, "Script breakdown failed")]
    /\ UNCHANGED <<probe, unit, localStorage, loaded, form>>

\* a caller invokes analyzeRoles: the prompt is built and executeGeminiCall
\* runs up to its first await
CallAnalyzeRoles(c) ==
    /\ calls[c].pc = "idle"
    /\ \E settings \in SettingsSamples :
          calls' = [calls EXCEPT ![c] =
                      executeGeminiCall([@ EXCEPT !.entry = "analyzeRoles"],
                                        settings, "Role analysis failed")]
    /\ UNCHANGED <<probe, unit, localStorage, loaded, form>>

\* a caller invokes inferFrameData: the prompt is built and
\* executeGeminiCall runs up to its first await
CallInferFrameData(c) ==
    /\ calls[c].pc = "idle"
    /\ \E settings \in SettingsSamples, engine \in Engines :
          calls' = [calls EXCEPT ![c] =
                      executeGeminiCall([@ EXCEPT !.entry = "inferFrameData",
                                                  !.engine = engine],
                                        settings, "Inference failed")]
    /\ UNCHANGED <<probe, unit, localStorage, loaded, form>>

\* a caller invokes generateImage: executeGeminiCall runs up to its first await
CallGenerateImage(c) ==
    /\ calls[c].pc = "idle"
    /\ \E settings \in SettingsSamples :
          calls' = [calls EXCEPT ![c] =
                      executeGeminiCall([@ EXCEPT !.entry = "generateImage"],
                                        settings, "Image generation failed")]
    /\ UNCHANGED <<probe, unit, localStorage, loaded, form>>

\* the transport answers the pending invocation of the operation:
\* "return await operation()" and, on an error, the catch block
OperationSettles(c) ==
    /\ calls[c].pc = "await_op"
    /\ \E transport \in transportOutcomes(calls[c]) :
          LET r == calls[c]
              out == operationOutcome(r, Len(r.log) + 1, transport)
              r1 == [r EXCEPT !.log = Append(@, out), !.transports = Append(@, transport)]
          IN  calls' = [calls EXCEPT ![c] =
                          IF out.kind = "return" THEN retrySettles(r1, out)
                          ELSE catchBlock(r1, out.error)]
    /\ UNCHANGED <<probe, unit, localStorage, loaded, form>>

\* a variant of BackoffEnds in which attempt is one counter of the module:
\* the increment is seen by every call that is in its loop
BackoffEnds_sharedCounter(c) ==
    /\ calls[c].pc = "backoff"
    /\ calls' = [d \in CallIds |->
                  IF d = c THEN enterLoop([calls[d] EXCEPT !.attempt = @ + 1])
                  ELSE IF calls[d].pc \in {"await_op", "backoff"}
                       THEN [calls[d] EXCEPT !.attempt = @ + 1]
                       ELSE calls[d]]
    /\ UNCHANGED <<probe, unit, localStorage, loaded, form>>

\* the backoff sleep ends: continue, attempt++ and the loop head
BackoffEnds(c) ==
    /\ calls[c].pc = "backoff"
    /\ calls' = [calls EXCEPT ![c] = enterLoop([@ EXCEPT !.attempt = @ + 1])]
    /\ UNCHANGED <<probe, unit, localStorage, loaded, form>>

CallNext(c) ==
    \/ CallRetryOperation(c)
    \/ CallExecuteGeminiCall(c)
    \/ CallInferBatchPrompts(c)
    \/ CallBreakdownScript(c)
    \/ CallAnalyzeRoles(c)
    \/ CallInferFrameData(c)
    \/ CallGenerateImage(c)
    \/ TaskSleepEnds(c)
    \/ OperationSettles(c)
    \/ BackoffEnds(c)

Next == CallNext(1)

Spec == Init /\ [][Next]_vars

\* calls of retryOperation and executeGeminiCall with an opaque operation,
\* under the scheduling the runtime gives: every pending invocation of the
\* operation settles and every backoff timer fires
FairNext ==
    \/ CallRetryOperation(1)
    \/ CallExecuteGeminiCall(1)
    \/ OperationSettles(1)
    \/ BackoffEnds(1)

FairSpec ==
    /\ Init /\ [][FairNext]_vars
    /\ WF_vars(OperationSettles(1))
    /\ WF_vars(BackoffEnds(1))

(***************************************************************************)
(* Two orchestrated calls in flight: either call takes the next step at    *)
(* every suspension point.  The transport returns one value, or raises a   *)
(* transient-marked or a marker-free error.                                *)
(***************************************************************************)
PairSettings == {s \in SettingsSamples : s.baseUrl = ""}

PairOutcomes ==
    {o \in OperationOutcomes :
        /\ o.text \in {"", "v1"}
        /\ o.message \in {"", "503 Service Unavailable", "400 Bad Request"}}

\* a caller invokes executeGeminiCall for call c
PairCalls(c) ==
    /\ CallExecuteGeminiCall(c)
    /\ calls'[c].settings \in PairSettings
    /\ calls'[c].contextName = "Inference failed"

\* the transport answers the pending invocation of call c
PairSettles(c) ==
    /\ OperationSettles(c)
    /\ calls'[c].transports[Len(calls'[c].transports)] \in PairOutcomes

PairNext == \E c \in CallIds : PairCalls(c) \/ PairSettles(c) \/ BackoffEnds(c)

PairSpec == Init /\ [][PairNext]_vars

(***************************************************************************)
(* The prober's actions and specification.                                 *)
(***************************************************************************)
\* a caller invokes testApiConnection; which models answer is the provider's
\* business and fixed for the duration of the call
CallTestApiConnection ==
    /\ probe.pc = "idle"
    /\ \E apiKey \in ProbeKeys, baseUrl \in ProbeUrls,
          priorityModels \in PriorityModelSamples :
          \E working \in SUBSET {modelsToTry(priorityModels)[i] :
                                   i \in 1..Len(modelsToTry(priorityModels))} :
            probe' = testApiConnection([probe EXCEPT !.working = working],
                                       apiKey, baseUrl, priorityModels)
    /\ UNCHANGED <<calls, unit, localStorage, loaded, form>>

\* the provider answers the pending request
ProbeSucceeds ==
    /\ probe.pc = "await_probe"
    /\ probe.list[probe.idx] \in probe.working
    /\ probe' = probeSettled(probe, TRUE, "")
    /\ UNCHANGED <<calls, unit, localStorage, loaded, form>>

\* the pending request fails
ProbeFails ==
    /\ probe.pc = "await_probe"
    /\ probe.list[probe.idx] \notin probe.working
    /\ \E message \in ProbeErrorMessages : probe' = probeSettled(probe, FALSE, message)
    /\ UNCHANGED <<calls, unit, localStorage, loaded, form>>

ProbeNext == CallTestApiConnection \/ ProbeSucceeds \/ ProbeFails

ProbeSpec == Init /\ [][ProbeNext]_vars

(***************************************************************************)
(* The pure helpers applied to sampled inputs: unit holds the input and,   *)
(* once the function has been applied, its result.                         *)
(***************************************************************************)
\* the largest number of trailing slashes of a sampled endpoint
MaxTrailingSlashes == 3

RECURSIVE slashes(_)
slashes(n) == IF n <= 0 THEN "" ELSE "/" \o slashes(n - 1)

\* what a user pastes before a version suffix: a proxy root, the official
\* endpoint, a proxy path, and roots that already end in a version suffix
UrlBases ==
    { "https://proxy.example",
      OfficialEndpoint,
      "https://proxy.example/api",
      "https://proxy.example/v1",
      "http://localhost:8080/v1beta" }

VersionSuffixes == {"/v1beta", "/v1"}

\* the endpoints handed to cleanBaseUrl: base, version suffix or none,
\* trailing slashes, bare or padded with blanks; blank strings; no string
UrlUnits ==
    { [fn |-> "cleanBaseUrl", stage |-> "input", shape |-> "endpoint",
       base |-> base, suffix |-> suffix, nslash |-> n,
       url |-> [defined |-> TRUE, url |-> pad \o base \o suffix \o slashes(n) \o pad]] :
        base \in UrlBases, suffix \in VersionSuffixes \cup {""},
        n \in 0..MaxTrailingSlashes, pad \in {"", " "} }
    \cup { [fn |-> "cleanBaseUrl", stage |-> "input", shape |-> "blank",
            base |-> "", suffix |-> "", nslash |-> 0,
            url |-> [defined |-> TRUE, url |-> blank]] : blank \in {"", "  ", "\t\n"} }
    \cup { [fn |-> "cleanBaseUrl", stage |-> "input", shape |-> "absent",
            base |-> "", suffix |-> "", nslash |-> 0,
            url |-> [defined |-> FALSE, url |-> ""]] }

\* cleanBaseUrl is applied to the input
CleanBaseUrlOnce ==
    /\ unit.fn = "cleanBaseUrl" /\ unit.stage = "input"
    /\ unit' = [fn |-> unit.fn, stage |-> "once", shape |-> unit.shape,
                base |-> unit.base, suffix |-> unit.suffix, nslash |-> unit.nslash,
                url |-> unit.url, once |-> cleanBaseUrl(unit.url)]
    /\ UNCHANGED <<calls, probe, localStorage, loaded, form>>

\* cleanBaseUrl is applied to its own result
CleanBaseUrlTwice ==
    /\ unit.fn = "cleanBaseUrl" /\ unit.stage = "once"
    /\ unit' = [fn |-> unit.fn, stage |-> "twice", shape |-> unit.shape,
                base |-> unit.base, suffix |-> unit.suffix, nslash |-> unit.nslash,
                url |-> unit.url, once |-> unit.once, twice |-> cleanBaseUrl(unit.once)]
    /\ UNCHANGED <<calls, probe, localStorage, loaded, form>>

\* credentials handed to cleanApiKey: with a Bearer prefix in three spellings,
\* padded, with white space inside, bare, and empty or blank ones
KeySamples ==
    { "  Bearer sk-abc123\f ",
      "bearer sk-abc123",
      "BEARER  sk-abc123",
      "Bearersk-abc123",
      "sk-abc123",
      " sk-abc123\n",
      "sk- abc\t123",
      "",
      "   ",
      "\f" }

KeyUnits == {[fn |-> "cleanApiKey", stage |-> "input", key |-> key] : key \in KeySamples}

\* cleanApiKey is applied to the input, and so is the older cleanApiKey
CleanApiKey ==
    /\ unit.fn = "cleanApiKey" /\ unit.stage = "input"
    /\ unit' = [fn |-> unit.fn, stage |-> "once", key |-> unit.key,
                result |-> cleanApiKey(unit.key),
                legacy |-> cleanApiKeyLegacy(unit.key)]
    /\ UNCHANGED <<calls, probe, localStorage, loaded, form>>

\* the context labels of the five tasks and of the prober
AllContextLabels ==
    { "Image generation failed", "Role analysis failed", "Batch inference failed",
      "Inference failed", "Script breakdown failed", "All model connection tests failed" }

\* messages handed to the classifier: those of the operations, and one for
\* every other pattern
ClassifierMessages ==
    ErrorMessages \cup
    { "403 Forbidden", "404 Not Found", "500 Internal Server Error",
      "503 Service Unavailable (upstream 500)", "NetworkError: 404" }

\* values other than Error objects that a catch block may receive
ThrownValues == {JStr("HTTP 429"), JStr("timeout"), JNum(503), JNull, JUndefined, JObj(<<>>, <<>>)}

ErrorUnits ==
    { [fn |-> "formatError", stage |-> "input", error |-> error, context |-> context] :
        error \in {Err("sample", 0, msg) : msg \in ClassifierMessages} \cup ThrownValues,
        context \in AllContextLabels }

\* formatError is applied to the input
FormatError ==
    /\ unit.fn = "formatError" /\ unit.stage = "input"
    /\ unit' = [fn |-> unit.fn, stage |-> "once", error |-> unit.error,
                context |-> unit.context,
                result |-> formatError(unit.error, unit.context)]
    /\ UNCHANGED <<calls, probe, localStorage, loaded, form>>

\* the inputs are drawn, nothing else runs
PureInit ==
    /\ calls = [c \in CallIds |-> IdleCall]
    /\ probe = IdleProbe
    /\ unit \in UrlUnits \cup KeyUnits \cup ErrorUnits
    /\ localStorage = EmptyStorage
    /\ loaded = NotLoaded
    /\ form = NoForm

PureNext == CleanBaseUrlOnce \/ CleanBaseUrlTwice \/ CleanApiKey \/ FormatError

PureSpec == PureInit /\ [][PureNext]_vars

(***************************************************************************)
(* Settings storage (utils/storage.ts).                                    *)
(***************************************************************************)
DEFAULT_SETTINGS ==
    JObj(<<"apiKey", "baseUrl", "textModel", "imageModel", "customTextModels",
           "jianYingPath", "outputImgPath", "themeColor">>,
         << JStr(""), JStr(""), JStr("gemini-2.5-pro"), JStr("gemini-2.5-flash-image"),
            JArr(<<>>),
            JStr("C:/Users/Admin/AppData/Local/JianYingPro/User Data/Projects/"),
            JStr("D:/AI_Output/"), JStr("#f97316") >>)

\* the own enumerable properties of a parsed value that the in operator
\* accepts: an object as it is, an array by its indices
asObject(v) ==
    IF v.t = "array"
    THEN JObj([i \in 1..Len(v.items) |-> numToString(i - 1)], v.items)
    ELSE v

\* what getSettingsSync returns for the settings item: read from the item,
\* the parsed record spread over the defaults; it throws (ok is FALSE) when
\* the item does not parse or parses to a primitive or null
settingsFrom(item) ==
    LET data == item.text
        parsed == JSONparse(data)
    IN  IF ~item.present \/ data = ""
        THEN [called |-> TRUE, ok |-> TRUE, val |-> spread(DEFAULT_SETTINGS, DEFAULT_SETTINGS),
              from |-> item]
        ELSE IF ~parsed.ok \/ parsed.val.t \notin {"object", "array"}
        THEN [called |-> TRUE, ok |-> FALSE, val |-> JUndefined, from |-> item]
        ELSE LET s0 == asObject(parsed.val)
                 s1 == IF hasProperty(s0, "apiKeys") THEN deleteProperty(s0, "apiKeys") ELSE s0
                 s2 == IF ~truthy(getProperty(s1, "customTextModels"))
                       THEN putMember(s1, "customTextModels", JArr(<<>>))
                       ELSE s1
             IN  [called |-> TRUE, ok |-> TRUE, val |-> spread(DEFAULT_SETTINGS, s2),
                  from |-> item]

\* a variant of getSettingsSync that leaves the old field apiKeys in place
getSettingsSync_keepsApiKeys(store) ==
    LET parsed == JSONparse(store.settings.text)
        s2 == IF ~truthy(getProperty(parsed.val, "customTextModels"))
              THEN putMember(parsed.val, "customTextModels", JArr(<<>>))
              ELSE parsed.val
    IN  IF ~store.settings.present \/ ~parsed.ok \/ parsed.val.t # "object"
        THEN settingsFrom(store.settings)
        ELSE [called |-> TRUE, ok |-> TRUE, val |-> spread(DEFAULT_SETTINGS, s2),
              from |-> store.settings]

\* storage.getSettingsSync()
getSettingsSync(store) == settingsFrom(store.settings)

\* storage.saveSettings(settings)
saveSettings(store, settings) ==
    [store EXCEPT !.settings = [present |-> TRUE, text |-> JSONstringify(settings)]]

\* what the settings item holds when the page opens: written by this version
\* of saveSettings, or by an older version (the field apiKeys, another field
\* no longer in use, a null list of custom models, a partial or empty record)
StoredSettingsTexts ==
    { JSONstringify(putMember(DEFAULT_SETTINGS, "apiKey", JStr("sk-abc123"))),
      "{\"apiKey\":\"sk-old\",\"apiKeys\":[\"k1\",\"k2\"],\"textModel\":\"gemini-1.5-pro\"}",
      "{\"apiKey\":\"sk-old\",\"model\":\"gemini-pro\"}",
      "{\"textModel\":\"my-model\",\"customTextModels\":null}",
      "{\"themeColor\":\"#000000\",\"customTextModels\":[{\"value\":\"my-model\",\"label\":\"my-model\"}]}",
      "{}" }

\* the fields a user changes before saving
SettingsEdits ==
    { [key |-> "apiKey", val |-> JStr(" sk-new ")],
      [key |-> "textModel", val |-> JStr("gemini-2.5-flash")],
      [key |-> "baseUrl", val |-> JStr("https://proxy.example/v1")],
      [key |-> "customTextModels",
       val |-> JArr(<<JObj(<<"value", "label">>, <<JStr("my-model"), JStr("my-model")>>)>>)] }

\* the page opens on a browser whose storage holds no settings or some
StorageInit ==
    /\ calls = [c \in CallIds |-> IdleCall]
    /\ probe = IdleProbe
    /\ unit = IdleUnit
    /\ localStorage \in {EmptyStorage}
                        \cup {[EmptyStorage EXCEPT !.settings = [present |-> TRUE, text |-> text]] :
                                text \in StoredSettingsTexts}
    /\ loaded = NotLoaded
    /\ form = NoForm

\* a caller reads the settings
GetSettingsSync ==
    /\ loaded' = getSettingsSync(localStorage)
    /\ UNCHANGED <<calls, probe, unit, localStorage, form>>

\* a caller changes one field of the settings it read and saves them
SaveSettings ==
    /\ loaded.called /\ loaded.ok
    /\ \E edit \in SettingsEdits :
          localStorage' = saveSettings(localStorage, putMember(loaded.val, edit.key, edit.val))
    /\ UNCHANGED <<calls, probe, unit, loaded, form>>

StorageNext == GetSettingsSync \/ SaveSettings

StorageSpec == StorageInit /\ [][StorageNext]_vars

(***************************************************************************)
(* The settings form (SettingsModal, the version with custom models).  Of  *)
(* the settings it edits the model keeps the credential, the selected text *)
(* model and the list of custom models; stored is what storage.getSettings *)
(* returns.  test is the connectivity test handleTestKey started last: the *)
(* credential it was given, whether it is still in flight and how it ended.*)
(***************************************************************************)
\* list.some(m => m.value === val)
someValue(list, val) == \E i \in 1..Len(list) : list[i].value = val

\* DEFAULT_TEXT_MODELS.some(m => m.value === val)
isBuiltIn(val) == \E i \in 1..Len(DEFAULT_TEXT_MODELS) : DEFAULT_TEXT_MODELS[i] = val

\* a variant of handleAddCustomModel that compares with the custom models only
handleAddCustomModel_customOnly(f) ==
    LET val == trim(f.customModelInput)
        existing == f.localSettings.customTextModels
    IN  IF val = "" \/ someValue(existing, val) THEN f
        ELSE [f EXCEPT !.localSettings.customTextModels =
                            Append(existing, [value |-> val, label |-> val]),
                       !.localSettings.textModel = val,
                       !.customModelInput = ""]

\* handleAddCustomModel
handleAddCustomModel(f) ==
    LET val == trim(f.customModelInput)
        existing == f.localSettings.customTextModels
    IN  IF val = "" THEN f
        ELSE IF someValue(existing, val) \/ isBuiltIn(val) THEN f
        ELSE [f EXCEPT !.localSettings.customTextModels =
                            Append(existing, [value |-> val, label |-> val]),
                       !.localSettings.textModel = val,
                       !.customModelInput = ""]

\* a variant of handleRemoveCustomModel that leaves the selection alone
handleRemoveCustomModel_keepsSelection(f, val) ==
    [f EXCEPT !.localSettings.customTextModels = SelectSeq(@, LAMBDA m : m.value # val)]

\* handleRemoveCustomModel(val)
handleRemoveCustomModel(f, val) ==
    [f EXCEPT !.localSettings.customTextModels = SelectSeq(@, LAMBDA m : m.value # val),
              !.localSettings.textModel = IF @ = val THEN DEFAULT_TEXT_MODELS[1] ELSE @]

\* handleTestKey up to its await: the test gets the trimmed credential
handleTestKey(f) ==
    [f EXCEPT !.testing = TRUE,
              !.test = [started |-> TRUE, running |-> TRUE,
                        key |-> trim(f.localSettings.apiKey), ok |-> FALSE]]

\* handleTestKey after its await: testApiConnection returned (ok) or raised
testSettles(f, ok) ==
    [f EXCEPT !.keyStatus = IF ok THEN "valid" ELSE "invalid",
              !.testing = FALSE,
              !.test.running = FALSE,
              !.test.ok = ok]

\* handleSave: the settings with the credential trimmed go to storage and
\* the form closes
handleSave(f) ==
    [f EXCEPT !.stored = [f.localSettings EXCEPT !.apiKey = trim(@)],
              !.isOpen = FALSE]

\* the effect on isOpen: the stored settings are loaded and the status cleared
openEffect(f) ==
    [f EXCEPT !.isOpen = TRUE, !.localSettings = f.stored, !.keyStatus = "null"]

\* credentials typed into the form
FormKeys == {"", "sk-abc123", "sk-other"}

\* texts typed into the custom model input: white space only, a new name
\* with padding, and the name of a built-in model
CustomModelInputs == {"   ", " my-model ", "gemini-2.5-flash"}

\* the settings in storage when the form is mounted: the defaults, and a
\* credential with one custom model, selected
FormStoredSamples ==
    { [apiKey |-> "", textModel |-> "gemini-2.5-pro", customTextModels |-> <<>>],
      [apiKey |-> "sk-abc123", textModel |-> "gpt-4o",
       customTextModels |-> <<[value |-> "gpt-4o", label |-> "gpt-4o"]>>] }

\* the form is mounted closed: useState(storage.getSettings())
FormInit ==
    /\ calls = [c \in CallIds |-> IdleCall]
    /\ probe = IdleProbe
    /\ unit = IdleUnit
    /\ localStorage = EmptyStorage
    /\ loaded = NotLoaded
    /\ \E s \in FormStoredSamples : form = [NoForm EXCEPT !.localSettings = s, !.stored = s]

\* the parent opens the form
OpenForm ==
    /\ ~form.isOpen
    /\ form' = openEffect(form)
    /\ UNCHANGED <<calls, probe, unit, localStorage, loaded>>

\* the user closes the form (onClose)
CloseForm ==
    /\ form.isOpen
    /\ form' = [form EXCEPT !.isOpen = FALSE]
    /\ UNCHANGED <<calls, probe, unit, localStorage, loaded>>

\* the user edits the credential: onChange of the API key input
EditApiKey ==
    /\ form.isOpen
    /\ \E key \in FormKeys :
          form' = [form EXCEPT !.localSettings.apiKey = key, !.keyStatus = "null"]
    /\ UNCHANGED <<calls, probe, unit, localStorage, loaded>>

\* the user types into the custom model input
EditCustomModelInput ==
    /\ form.isOpen
    /\ \E text \in CustomModelInputs : form' = [form EXCEPT !.customModelInput = text]
    /\ UNCHANGED <<calls, probe, unit, localStorage, loaded>>

\* the user clicks the add button, which is disabled while the input is empty
ClickAddCustomModel ==
    /\ form.isOpen
    /\ form.customModelInput # ""
    /\ form' = handleAddCustomModel(form)
    /\ UNCHANGED <<calls, probe, unit, localStorage, loaded>>

\* the user clicks the remove button, which is shown while the selected
\* model is a custom one
ClickRemoveCustomModel ==
    /\ form.isOpen
    /\ someValue(form.localSettings.customTextModels, form.localSettings.textModel)
    /\ form' = handleRemoveCustomModel(form, form.localSettings.textModel)
    /\ UNCHANGED <<calls, probe, unit, localStorage, loaded>>

\* the user picks an option of the text model select: a built-in or a custom model
SelectTextModel ==
    /\ form.isOpen
    /\ \E val \in {DEFAULT_TEXT_MODELS[i] : i \in 1..Len(DEFAULT_TEXT_MODELS)}
                  \cup {form.localSettings.customTextModels[i].value :
                          i \in 1..Len(form.localSettings.customTextModels)} :
          form' = [form EXCEPT !.localSettings.textModel = val]
    /\ UNCHANGED <<calls, probe, unit, localStorage, loaded>>

\* the user clicks the test button, which is disabled during a test and
\* while the credential is empty
ClickTestKey ==
    /\ form.isOpen
    /\ ~form.testing
    /\ form.localSettings.apiKey # ""
    /\ form' = handleTestKey(form)
    /\ UNCHANGED <<calls, probe, unit, localStorage, loaded>>

\* the test in flight ends
TestSettles ==
    /\ form.test.running
    /\ \E ok \in BOOLEAN : form' = testSettles(form, ok)
    /\ UNCHANGED <<calls, probe, unit, localStorage, loaded>>

\* the user clicks the save button
ClickSave ==
    /\ form.isOpen
    /\ form' = handleSave(form)
    /\ UNCHANGED <<calls, probe, unit, localStorage, loaded>>

FormNext ==
    \/ OpenForm
    \/ CloseForm
    \/ EditApiKey
    \/ EditCustomModelInput
    \/ ClickAddCustomModel
    \/ ClickRemoveCustomModel
    \/ SelectTextModel
    \/ ClickTestKey
    \/ TestSettles
    \/ ClickSave

FormSpec == FormInit /\ [][FormNext]_vars

(***************************************************************************)
(* The stored projects: storage.getProjectsSync, saveSingleProject and     *)
(* deleteProject over the item KEYS.PROJECTS of localStorage.  The two     *)
(* writers are async functions without an await: each runs to its end in   *)
(* one step.                                                               *)
(***************************************************************************)
\* storage.getProjectsSync(): [ok |-> FALSE] stands for the SyntaxError of
\* JSON.parse; an absent or empty item reads as the empty list
getProjectsSync(store) ==
    IF ~store.projects.present \/ store.projects.text = ""
    THEN [ok |-> TRUE, val |-> JArr(<<>>)]
    ELSE JSONparse(store.projects.text)

\* p.id of an element of the list
projectId(p) == getProperty(p, "id")

\* the methods of the list can run: the item holds an array without null elements
isProjectList(r) ==
    /\ r.ok
    /\ r.val.t = "array"
    /\ \A i \in 1..Len(r.val.items) : r.val.items[i].t # "null"

\* localStorage.setItem(KEYS.PROJECTS, JSON.stringify(projects))
setProjects(store, projects) ==
    [store EXCEPT !.projects = [present |-> TRUE, text |-> JSONstringify(JArr(projects))]]

\* the list saveSingleProject writes, r being what getProjectsSync returned
updatedProjects(r, project) ==
    IF \E i \in 1..Len(r.val.items) : projectId(r.val.items[i]) = projectId(project)
    THEN [i \in 1..Len(r.val.items) |->
            IF projectId(r.val.items[i]) = projectId(project) THEN project ELSE r.val.items[i]]
    ELSE <<project>> \o r.val.items

\* the store after saveSingleProject, r being what getProjectsSync returned:
\* nothing is written when getProjectsSync or a method of the list throws
savedProject(store, r, project) ==
    IF isProjectList(r) THEN setProjects(store, updatedProjects(r, project)) ELSE store

\* a variant of saveSingleProject that puts the project at the front whether
\* or not its id is stored
saveSingleProject_alwaysPrepends(store, project) ==
    setProjects(store, <<project>> \o getProjectsSync(store).val.items)

\* storage.saveSingleProject(project)
saveSingleProject(store, project) == savedProject(store, getProjectsSync(store), project)

\* the store after deleteProject, r being what getProjectsSync returned
deletedProject(store, r, id) ==
    IF isProjectList(r)
    THEN setProjects(store, SelectSeq(r.val.items, LAMBDA p : projectId(p) # JStr(id)))
    ELSE store

\* storage.deleteProject(id)
deleteProject(store, id) == deletedProject(store, getProjectsSync(store), id)

\* a project of the application, as far as the storage reads it
Project(id, name) == JObj(<<"id", "name">>, <<JStr(id), JStr(name)>>)

\* ids and names of the projects the callers save and delete
ProjectIds == {"p1", "p2", "p3"}
ProjectNames == {"Pilot", "Ep \"2\""}

\* what the projects item holds when the page opens: nothing, an empty
\* text, or a list written by saveProjects
StoredProjectTexts ==
    { "",
      "[]",
      JSONstringify(JArr(<<Project("p1", "Pilot"), Project("p2", "Pilot")>>)),
      JSONstringify(JArr(<<Project("p3", "Pilot"), Project("p1", "Pilot"),
                           Project("p2", "Ep \"2\"")>>)) }

ProjectInit ==
    /\ calls = [c \in CallIds |-> IdleCall]
    /\ probe = IdleProbe
    /\ unit = IdleUnit
    /\ localStorage \in {EmptyStorage}
                        \cup {[EmptyStorage EXCEPT !.projects = [present |-> TRUE, text |-> text]] :
                                text \in StoredProjectTexts}
    /\ loaded = NotLoaded
    /\ form = NoForm

\* a caller saves a project; unit keeps the call: its argument and the list
\* getProjectsSync gave it
SaveSingleProject ==
    /\ \E id \in ProjectIds, name \in ProjectNames :
          /\ localStorage' = saveSingleProject(localStorage, Project(id, name))
          /\ unit' = [fn |-> "saveSingleProject", stage |-> "once",
                      project |-> Project(id, name),
                      projects |-> getProjectsSync(localStorage)]
    /\ UNCHANGED <<calls, probe, loaded, form>>

\* a caller deletes a project; unit keeps the call
DeleteProject ==
    /\ \E id \in ProjectIds :
          /\ localStorage' = deleteProject(localStorage, id)
          /\ unit' = [fn |-> "deleteProject", stage |-> "once", id |-> id,
                      projects |-> getProjectsSync(localStorage)]
    /\ UNCHANGED <<calls, probe, loaded, form>>

ProjectNext == SaveSingleProject \/ DeleteProject

ProjectSpec == ProjectInit /\ [][ProjectNext]_vars

(***************************************************************************)
(* Vocabulary of the properties.                                           *)
(***************************************************************************)
\* the transient markers, as the specification lists them
TransientMarkers == {"429", "503", "Quota exceeded", "NetworkError", "Failed to fetch"}

\* the message carries a transient marker
TransientMarked(msg) == \E m \in TransientMarkers : includes(msg, m)

\* the i-th invocation of r's operation failed with a transient-marked error
FailedTransient(r, i) ==
    /\ r.log[i].kind = "raise"
    /\ TransientMarked(r.log[i].error.message)

\* the i-th invocation of r's operation failed with an error carrying no marker
FailedPermanent(r, i) ==
    /\ r.log[i].kind = "raise"
    /\ ~TransientMarked(r.log[i].error.message)

\* the credential is empty once normalized: it holds white space only
EmptyCredential(key) == \A i \in 1..Len(key) : CharAt(key, i) \in WhiteSpace

\* the calls of one entry point
CallsOf(entry) == {c \in CallIds : calls[c].entry = entry}

(***************************************************************************)
(* C1: for any maxRetries >= 0 and any k in 0..maxRetries, when the        *)
(* operation fails with a transient-marked error on its first k            *)
(* invocations and succeeds on invocation k+1, retryOperation returns that *)
(* success value after exactly k+1 invocations, and the backoff waits      *)
(* before the return add up to at least baseDelay * (2^k - 1).             *)
(***************************************************************************)
C1_SuccessAfterKTransientFailures ==
    \A c \in CallsOf("retryOperation") :
      LET r == calls[c]
      IN  \A k \in 0..r.maxRetries :
            ( /\ Len(r.log) >= k + 1
              /\ \A i \in 1..k : FailedTransient(r, i)
              /\ r.log[k + 1].kind = "return" )
            => /\ r.pc = "done"
               /\ r.outcome = r.log[k + 1]
               /\ Len(r.log) = k + 1
               /\ SumSeq(r.waits) >= r.baseDelay * (pow2(k) - 1)

\* retryOperation returned a value on the fourth invocation, after three
\* transient-marked failures
C1_Witness ==
    \E c \in CallsOf("retryOperation") :
      /\ calls[c].pc = "done"
      /\ calls[c].outcome.kind = "return"
      /\ Len(calls[c].log) = 4
      /\ \A i \in 1..3 : FailedTransient(calls[c], i)

(***************************************************************************)
(* C2: when every invocation fails with a transient-marked error,          *)
(* retryOperation invokes the operation exactly maxRetries+1 times and     *)
(* then raises the error of the last invocation, not of an earlier one.    *)
(***************************************************************************)
C2_ExhaustedRaisesLastError ==
    \A c \in CallsOf("retryOperation") :
      LET r == calls[c]
          n == Len(r.log)
      IN  /\ n <= r.maxRetries + 1
          /\ (\A i \in 1..n : FailedTransient(r, i))
             => IF r.pc = "done"
                THEN /\ n = r.maxRetries + 1
                     /\ r.outcome = Raise(r.log[n].error)
                     /\ r.outcome.error.inv = r.maxRetries + 1
                ELSE n <= r.maxRetries

\* retryOperation raised after three retries that all failed transiently
C2_Witness ==
    \E c \in CallsOf("retryOperation") :
      /\ calls[c].pc = "done"
      /\ calls[c].maxRetries = 3
      /\ Len(calls[c].log) = 4
      /\ \A i \in 1..4 : FailedTransient(calls[c], i)
      /\ calls[c].outcome.kind = "raise"

(***************************************************************************)
(* C3: when an invocation fails with an error whose message carries none   *)
(* of the transient markers, retryOperation raises that same error at      *)
(* once: no further invocation, and no backoff wait after the failure,     *)
(* however many attempts remain.                                           *)
(***************************************************************************)
C3_PermanentErrorRaisedAtOnce ==
    \A c \in CallsOf("retryOperation") :
      LET r == calls[c]
      IN  \A i \in 1..Len(r.log) :
            FailedPermanent(r, i)
            => /\ r.pc = "done"
               /\ r.outcome = Raise(r.log[i].error)
               /\ Len(r.log) = i
               /\ Len(r.waits) = i - 1

\* retryOperation raised a marker-free error of the first invocation with
\* three attempts left, and one of the second invocation after one wait
C3_Witness ==
    \E c \in CallsOf("retryOperation") :
      /\ calls[c].pc = "done"
      /\ calls[c].maxRetries = 3
      /\ Len(calls[c].log) = 2
      /\ FailedPermanent(calls[c], 2)
      /\ calls[c].outcome.kind = "raise"

(***************************************************************************)
(* C4: in an orchestrated call a transient-marked failure reaches the      *)
(* caller only when the retry budget is used up: when the caller receives  *)
(* an error caused by a transient-marked failure, the operation has been   *)
(* invoked 4 times; when an invocation succeeds, the caller receives its   *)
(* value and no error.                                                     *)
(***************************************************************************)
C4_TransientSurfacesOnlyWhenExhausted ==
    \A c \in CallsOf("executeGeminiCall") :
      LET r == calls[c]
          n == Len(r.log)
      IN  /\ (r.pc = "done" /\ r.outcome.kind = "raise" /\ n > 0 /\ FailedTransient(r, n))
             => n = 4
          /\ \A i \in 1..n :
                r.log[i].kind = "return"
                => r.pc = "done" /\ r.outcome = r.log[i] /\ i <= 4

\* an orchestrated call ended in an error after four transient-marked failures
C4_Witness ==
    \E c \in CallsOf("executeGeminiCall") :
      /\ calls[c].pc = "done"
      /\ calls[c].outcome.kind = "raise"
      /\ Len(calls[c].log) = 4
      /\ FailedTransient(calls[c], 4)

(***************************************************************************)
(* C5: when the credential of the settings is empty after normalization,   *)
(* executeGeminiCall fails fast with a configuration error: the operation  *)
(* is never invoked, no client is constructed and nothing is waited for.   *)
(***************************************************************************)
C5_EmptyCredentialFailsFast ==
    \A c \in CallsOf("executeGeminiCall") :
      LET r == calls[c]
      IN  EmptyCredential(r.settings.apiKey)
          => /\ r.pc = "done"
             /\ r.outcome.kind = "raise"
             /\ r.outcome.error.message = "API Key not configured"
             /\ r.log = <<>>
             /\ ~r.client.built
             /\ r.waits = <<>>

\* an orchestrated call with a white-space-only credential has failed
C5_Witness ==
    \E c \in CallsOf("executeGeminiCall") :
      /\ calls[c].settings.apiKey = " \t "
      /\ calls[c].pc = "done"
      /\ calls[c].outcome.kind = "raise"

(***************************************************************************)
(* C6: every error that escapes the retry wrapper inside executeGeminiCall *)
(* reaches the caller as one new error whose message is the context label, *)
(* ": " and the classifier's text for the underlying message; the          *)
(* classifier is applied once, and the caller never receives the original  *)
(* error object.                                                           *)
(***************************************************************************)
C6_EscapedErrorIsClassifiedOnce ==
    \A c \in CallsOf("executeGeminiCall") :
      LET r == calls[c]
          n == Len(r.log)
      IN  /\ r.nformat <= 1
          /\ (r.pc = "done" /\ n > 0 /\ r.log[n].kind = "raise")
             => /\ r.outcome.kind = "raise"
                /\ r.outcome.error.message
                     = r.contextName \o ": " \o classify(r.log[n].error.message)
                /\ r.outcome.error.by = "executeGeminiCall"
                /\ \A i \in 1..n : r.outcome.error # r.log[i].error
                /\ r.nformat = 1

\* an orchestrated call ended in the classified rate-limit error
C6_Witness ==
    \E c \in CallsOf("executeGeminiCall") :
      /\ calls[c].pc = "done"
      /\ calls[c].contextName = "Inference failed"
      /\ calls[c].outcome.kind = "raise"
      /\ calls[c].outcome.error.message = "Inference failed: " \o Msg429

(***************************************************************************)
(* C10: inferBatchPrompts never raises; on any failure (an empty           *)
(* credential, a terminal failure of the orchestrated call after the       *)
(* retries, a response that does not parse or is not an array, or whose    *)
(* array holds null) it returns exactly one placeholder                    *)
(* {prompt: "", activeNames: []} per input segment.                        *)
(***************************************************************************)
EmptyEntry == JObj(<<"prompt", "activeNames">>, <<JStr(""), JArr(<<>>)>>)

\* the sampled response texts that are not JSON, that are JSON but no array,
\* and that are an array with a null entry
UnparsableTexts == {"Sorry, I cannot help with that."}
NonArrayTexts == {"{\"prompt\":\"a\",\"activeCharacterNames\":[]}"}
NullEntryTexts == {"[{\"prompt\":\"a\"}, null]"}

\* the call r of inferBatchPrompts met a failure
BatchFailure(r) ==
    LET n == Len(r.transports)
    IN  \/ EmptyCredential(r.settings.apiKey)
        \/ n > 0 /\ ~r.transports[n].ok
        \/ /\ n > 0
           /\ r.transports[n].ok
           /\ r.transports[n].hasText
           /\ r.transports[n].text \in UnparsableTexts \cup NonArrayTexts \cup NullEntryTexts

C10_BatchNeverRaises ==
    \A c \in CallsOf("inferBatchPrompts") :
      LET r == calls[c]
      IN  r.pc = "done"
          => /\ r.outcome.kind = "return"
             /\ BatchFailure(r)
                => r.outcome.value = JArr([i \in 1..r.nseg |-> EmptyEntry])

\* inferBatchPrompts, given three segments, returned three placeholders after
\* the orchestrated call used up its retries
C10_Witness ==
    \E c \in CallsOf("inferBatchPrompts") :
      /\ calls[c].pc = "done"
      /\ calls[c].nseg = 3
      /\ Len(calls[c].transports) = 4
      /\ \A i \in 1..4 : ~calls[c].transports[i].ok
      /\ calls[c].outcome = Return(JArr(<<EmptyEntry, EmptyEntry, EmptyEntry>>))

(***************************************************************************)
(* Vocabulary of the prober's properties.                                  *)
(***************************************************************************)
\* the candidate list of a call: the priorities, then the built-in models,
\* each identifier at its first position only
Candidates(priorityModels) ==
    LET all == priorityModels \o DEFAULT_TEXT_MODELS
        FirstSeen(i) == \A j \in 1..(i - 1) : all[j] # all[i]
        kept == {i \in 1..Len(all) : FirstSeen(i)}
        Rank(i) == Cardinality({j \in kept : j <= i})
    IN  [n \in 1..Cardinality(kept) |-> all[CHOOSE i \in kept : Rank(i) = n]]

\* the candidates that are not the empty identifier, in list order
NamedCandidates(priorityModels) ==
    SelectSeq(Candidates(priorityModels), LAMBDA m : m # "")

\* the requests sent so far went to the first candidates of list, one each,
\* in list order
ProbedInOrder(list) ==
    /\ Len(probe.log) <= Len(list)
    /\ \A i \in 1..Len(probe.log) : probe.log[i].model = list[i]

\* the call returned the candidate of its last request, which succeeded, and
\* every request before it failed
ReturnedFirstSuccess ==
    LET n == Len(probe.log)
    IN  /\ n > 0
        /\ probe.log[n].ok
        /\ probe.outcome.value = JStr(probe.log[n].model)
        /\ \A i \in 1..(n - 1) : ~probe.log[i].ok

FailedProbes == {i \in 1..Len(probe.log) : ~probe.log[i].ok}
SuccessfulProbes == {i \in 1..Len(probe.log) : probe.log[i].ok}

(***************************************************************************)
(* C7, as stated: testApiConnection probes the candidates strictly in list *)
(* order, one request per candidate, and returns the first candidate whose *)
(* probe succeeds; every candidate before it was probed and failed, and no *)
(* candidate after it is probed.                                           *)
(***************************************************************************)
C7_AsStated ==
    /\ ProbedInOrder(Candidates(probe.priorityModels))
    /\ (probe.pc = "done" /\ probe.outcome.kind = "return") => ReturnedFirstSuccess

(***************************************************************************)
(* C7, amended: an empty identifier in the list is skipped without a       *)
(* request; the candidates that are not empty are probed strictly in list  *)
(* order, one request each, and the call returns the first of them whose   *)
(* probe succeeds: every non-empty candidate before it was probed and      *)
(* failed, and no candidate after it is probed.                            *)
(***************************************************************************)
C7_ProbesNamedCandidatesInOrder ==
    /\ ProbedInOrder(NamedCandidates(probe.priorityModels))
    /\ \A i \in 1..Len(probe.log) : probe.log[i].model # ""
    /\ (probe.pc = "done" /\ probe.outcome.kind = "return") => ReturnedFirstSuccess
    /\ (probe.pc = "await_probe") => \A i \in 1..Len(probe.log) : ~probe.log[i].ok

\* the call returned its third candidate after two failures, with an empty
\* identifier at the head of the list
C7_Witness ==
    /\ probe.pc = "done"
    /\ probe.outcome.kind = "return"
    /\ probe.priorityModels = <<"">>
    /\ Len(probe.log) = 3
    /\ probe.outcome.value = JStr("gemini-1.5-pro")

(***************************************************************************)
(* C8, as stated: with candidates A, B, C, ... of which only B's probe     *)
(* succeeds, testApiConnection returns B after exactly 2 failed attempts   *)
(* plus 1 success.                                                         *)
(***************************************************************************)
OnlySecondWorks ==
    /\ probe.pc = "done"
    /\ probe.client.built
    /\ Len(probe.list) >= 3
    /\ \A i \in 1..Len(probe.list) : probe.list[i] # ""
    /\ probe.working = {probe.list[2]}

C8_AsStated ==
    OnlySecondWorks
    => /\ probe.outcome = Return(JStr(probe.list[2]))
       /\ Cardinality(FailedProbes) = 2
       /\ Cardinality(SuccessfulProbes) = 1

(***************************************************************************)
(* C8, amended: with candidates A, B, C, ... of which only B's probe       *)
(* succeeds, testApiConnection returns B after exactly 1 failed attempt    *)
(* (A's) plus 1 success; C is never probed.                                *)
(***************************************************************************)
C8_SecondCandidateAfterOneFailure ==
    OnlySecondWorks
    => /\ probe.outcome = Return(JStr(probe.list[2]))
       /\ Cardinality(FailedProbes) = 1
       /\ Cardinality(SuccessfulProbes) = 1
       /\ Len(probe.log) = 2
       /\ probe.log[1].model = probe.list[1] /\ ~probe.log[1].ok
       /\ probe.log[2].model = probe.list[2] /\ probe.log[2].ok
       /\ \A i \in 1..Len(probe.log) : probe.log[i].model # probe.list[3]

\* a call whose second candidate alone works has returned
C8_Witness ==
    /\ OnlySecondWorks
    /\ probe.priorityModels = <<"my-model">>
    /\ probe.outcome.kind = "return"

(***************************************************************************)
(* C9, as stated: when every candidate's probe fails, testApiConnection    *)
(* raises one classified error built from the failure of the last          *)
(* candidate probed; failures of earlier candidates do not appear in it,   *)
(* and every candidate in the list has been probed before it is raised.    *)
(***************************************************************************)
AllProbesFailed ==
    /\ probe.pc = "done"
    /\ probe.client.built
    /\ \A i \in 1..Len(probe.log) : ~probe.log[i].ok

RaisedFromLastFailure ==
    LET n == Len(probe.log)
    IN  /\ n > 0
        /\ probe.outcome.kind = "raise"
        /\ probe.outcome.error.by = "testApiConnection"
        /\ probe.outcome.error.message
             = "All model connection tests failed: " \o classify(probe.log[n].error.message)
        /\ probe.nformat = 1

EveryProbed(list) ==
    \A i \in 1..Len(list) : \E j \in 1..Len(probe.log) : probe.log[j].model = list[i]

C9_AsStated ==
    AllProbesFailed
    => /\ RaisedFromLastFailure
       /\ EveryProbed(Candidates(probe.priorityModels))

(***************************************************************************)
(* C9, amended: when every probe fails, testApiConnection raises one       *)
(* classified error built from the failure of the last candidate probed;   *)
(* failures of earlier candidates do not appear in it, and every candidate *)
(* in the list other than an empty identifier (which is skipped) has been  *)
(* probed before it is raised.                                             *)
(***************************************************************************)
C9_AllFailRaisesLastFailure ==
    AllProbesFailed
    => /\ RaisedFromLastFailure
       /\ probe.log[Len(probe.log)].model
            = NamedCandidates(probe.priorityModels)[Len(NamedCandidates(probe.priorityModels))]
       /\ EveryProbed(NamedCandidates(probe.priorityModels))
       /\ Len(probe.log) = Len(NamedCandidates(probe.priorityModels))

\* every probe failed, the first with a 401 and the last with a network
\* failure, and the error raised is the network one
C9_Witness ==
    /\ AllProbesFailed
    /\ Len(probe.log) = 5
    /\ probe.log[1].error.message = "401 Unauthorized"
    /\ probe.log[5].error.message = "TypeError: Failed to fetch"
    /\ probe.outcome.error.message = "All model connection tests failed: " \o MsgNetwork

(***************************************************************************)
(* Vocabulary of the tasks' properties.                                    *)
(***************************************************************************)
\* the lines of a script: the texts between its line feeds
LineOf(s, k) ==
    LET nl == {i \in 1..Len(s) : CharAt(s, i) = "\n"}
        before == {i \in nl : Cardinality({j \in nl : j <= i}) = k - 1}
        after == {i \in nl : Cardinality({j \in nl : j <= i}) = k}
        from == IF before = {} THEN 1 ELSE (CHOOSE i \in before : TRUE) + 1
        to == IF after = {} THEN Len(s) ELSE (CHOOSE i \in after : TRUE) - 1
    IN  SubSeq(s, from, to)

LineCount(s) == Cardinality({i \in 1..Len(s) : CharAt(s, i) = "\n"}) + 1

\* a line that is empty or holds white space only
BlankLine(l) == \A i \in 1..Len(l) : CharAt(l, i) \in WhiteSpace

\* the lines of s that are not blank, unchanged and in their order
NonBlankLines(s) ==
    LET kept == {k \in 1..LineCount(s) : ~BlankLine(LineOf(s, k))}
        Nth(n) == CHOOSE k \in kept : Cardinality({j \in kept : j <= k}) = n
    IN  JArr([n \in 1..Cardinality(kept) |-> JStr(LineOf(s, Nth(n)))])

\* the last request of call r ended in a transport error
TransportFailed(r) ==
    /\ Len(r.transports) > 0
    /\ ~r.transports[Len(r.transports)].ok

\* the last response of call r carried one of the given texts
AnsweredWith(r, texts) ==
    /\ Len(r.transports) > 0
    /\ r.transports[Len(r.transports)].ok
    /\ r.transports[Len(r.transports)].hasText
    /\ r.transports[Len(r.transports)].text \in texts

\* the sampled response texts that are not JSON
NotJsonTexts == {"Sorry, I cannot help with that.", "Error 503"}

(***************************************************************************)
(* C11: breakdownScript never raises; on any failure (an empty credential, *)
(* a terminal failure of the orchestrated call, a response that is not     *)
(* valid JSON) it returns the input script split on line feeds with the    *)
(* blank and white-space-only lines removed, the other lines unchanged and *)
(* in their original order.                                                *)
(***************************************************************************)
C11_BreakdownNeverRaises ==
    \A c \in CallsOf("breakdownScript") :
      LET r == calls[c]
      IN  /\ r.pc = "done" => r.outcome.kind = "return"
          /\ EmptyCredential(r.settings.apiKey) => r.pc = "done"
          /\ ( /\ r.pc = "done"
               /\ \/ EmptyCredential(r.settings.apiKey)
                  \/ TransportFailed(r)
                  \/ AnsweredWith(r, NotJsonTexts) )
             => r.outcome.value = NonBlankLines(r.script)

\* breakdownScript, given a script with blank lines and a response in prose,
\* returned the two lines of the script that are not blank
C11_Witness ==
    \E c \in CallsOf("breakdownScript") :
      /\ calls[c].pc = "done"
      /\ calls[c].script = "a\n\n \t\nb\n"
      /\ AnsweredWith(calls[c], {"Sorry, I cannot help with that."})
      /\ calls[c].outcome = Return(JArr(<<JStr("a"), JStr("b")>>))

(***************************************************************************)
(* C12, as stated: analyzeRoles swallows terminal errors: when the         *)
(* orchestrated call ends in a terminal failure (a permanent transport     *)
(* error, or a transient one after the retries are used up), analyzeRoles  *)
(* returns the empty result instead of raising.                            *)
(***************************************************************************)
C12_AsStated ==
    \A c \in CallsOf("analyzeRoles") :
      (calls[c].pc = "done" /\ TransportFailed(calls[c]))
      => calls[c].outcome = Return(JArr(<<>>))

(***************************************************************************)
(* C12, amended: analyzeRoles does not swallow terminal errors: when the   *)
(* orchestrated call ends in a terminal failure, analyzeRoles raises the   *)
(* classified error to its caller; only a response that is not valid JSON, *)
(* is no array or holds a null entry gives the empty result.               *)
(***************************************************************************)
C12_RolesRaiseTerminalErrors ==
    \A c \in CallsOf("analyzeRoles") :
      LET r == calls[c]
          n == Len(r.transports)
      IN  /\ (r.pc = "done" /\ TransportFailed(r))
             => /\ r.outcome.kind = "raise"
                /\ r.outcome.error.message
                     = "Role analysis failed: " \o classify(r.transports[n].message)
          /\ ( /\ r.pc = "done"
               /\ AnsweredWith(r, {"Sorry, I cannot help with that.", "{\"name\":\"Ann\"}",
                                   "[null]"}) )
             => r.outcome = Return(JArr(<<>>))

\* analyzeRoles raised after the orchestrated call used up its retries
C12_Witness ==
    \E c \in CallsOf("analyzeRoles") :
      /\ calls[c].pc = "done"
      /\ Len(calls[c].transports) = 4
      /\ TransportFailed(calls[c])
      /\ calls[c].outcome.kind = "raise"

(***************************************************************************)
(* C13: inferFrameData and generateImage never substitute a fallback       *)
(* result: every terminal failure of the orchestrated call, a response     *)
(* that does not parse as JSON in inferFrameData included, is raised to    *)
(* the caller as a classified error; a value the caller receives is the    *)
(* value the operation made of the last response.                          *)
(***************************************************************************)
ContextOf(entry) ==
    IF entry = "inferFrameData" THEN "Inference failed" ELSE "Image generation failed"

C13_FrameAndImagePropagate ==
    \A c \in CallsOf("inferFrameData") \cup CallsOf("generateImage") :
      LET r == calls[c]
          n == Len(r.log)
      IN  /\ TransportFailed(r) => r.log[n].kind = "raise"
          /\ (r.entry = "inferFrameData" /\ AnsweredWith(r, NotJsonTexts))
             => r.log[n].kind = "raise"
          /\ (r.pc = "done" /\ n > 0 /\ r.log[n].kind = "raise")
             => /\ r.outcome.kind = "raise"
                /\ r.outcome.error.by = "executeGeminiCall"
                /\ r.outcome.error.message
                     = ContextOf(r.entry) \o ": " \o classify(r.log[n].error.message)
          /\ (r.pc = "done" /\ r.outcome.kind = "return")
             => n > 0 /\ r.outcome = r.log[n]
          /\ (r.pc = "done" /\ EmptyCredential(r.settings.apiKey))
             => r.outcome.kind = "raise"

\* inferFrameData raised the classified error of a response in prose
C13_Witness ==
    \E c \in CallsOf("inferFrameData") :
      /\ calls[c].pc = "done"
      /\ AnsweredWith(calls[c], {"Sorry, I cannot help with that."})
      /\ calls[c].outcome.kind = "raise"
      /\ includes(calls[c].outcome.error.message, "Inference failed: ")

(***************************************************************************)
(* Vocabulary of C19: the first candidate of a response, the non-empty     *)
(* inline payloads of its content parts in order, and its stop reason.     *)
(***************************************************************************)
FieldOf(v, key) ==
    IF v.t = "object" /\ key \in {v.keys[k] : k \in 1..Len(v.keys)}
    THEN v.vals[CHOOSE k \in 1..Len(v.keys) : v.keys[k] = key]
    ELSE JUndefined

FirstCandidate(body) ==
    LET cs == FieldOf(body, "candidates")
    IN  IF cs.t = "array" /\ cs.items # <<>> THEN Head(cs.items) ELSE JUndefined

PartsOf(candidate) ==
    LET ps == FieldOf(FieldOf(candidate, "content"), "parts")
    IN  IF ps.t = "array" THEN ps.items ELSE <<>>

PayloadOf(part) ==
    LET d == FieldOf(FieldOf(part, "inlineData"), "data")
    IN  IF d.t = "string" THEN d.s ELSE ""

Payloads(body) ==
    SelectSeq([i \in 1..Len(PartsOf(FirstCandidate(body))) |->
                 PayloadOf(PartsOf(FirstCandidate(body))[i])],
              LAMBDA d : d # "")

StopReason(body) ==
    LET f == FieldOf(FirstCandidate(body), "finishReason")
    IN  IF f.t = "string" THEN f.s ELSE ""

(***************************************************************************)
(* C19: generateImage decides its outcome from the first response          *)
(* candidate in this priority: when a content part carries a non-empty     *)
(* inline payload, the first such payload is returned as a data URL, stop  *)
(* reason or not; otherwise, when the candidate has a stop reason, an      *)
(* error naming that reason is raised; otherwise a generic empty-response  *)
(* error is raised.                                                        *)
(***************************************************************************)
C19_ImageOutcomePriority ==
    \A c \in CallsOf("generateImage") :
      LET r == calls[c]
          n == Len(r.log)
          body == r.transports[n].body
      IN  (r.pc = "done" /\ n > 0 /\ r.transports[n].ok)
          => IF Payloads(body) # <<>>
             THEN r.outcome = Return(JStr("data:image/png;base64," \o Head(Payloads(body))))
             ELSE IF StopReason(body) # ""
             THEN /\ r.outcome.kind = "raise"
                  /\ r.log[n] = Raise(Err("operation", n,
                                          "Generation blocked (" \o StopReason(body) \o ")"))
                  /\ includes(r.outcome.error.message, StopReason(body))
             ELSE /\ r.outcome.kind = "raise"
                  /\ r.log[n] = Raise(Err("operation", n, "API returned empty data"))
                  /\ r.outcome.error.message
                       = "Image generation failed: API returned empty data"

\* generateImage returned the first of two payloads of a candidate that also
\* carries a stop reason
C19_Witness ==
    \E c \in CallsOf("generateImage") :
      /\ calls[c].pc = "done"
      /\ Len(calls[c].transports) > 0
      /\ calls[c].transports[Len(calls[c].transports)].ok
      /\ StopReason(calls[c].transports[Len(calls[c].transports)].body) = "STOP"
      /\ calls[c].outcome = Return(JStr("data:image/png;base64,AAAA"))

(***************************************************************************)
(* Vocabulary of the endpoint normalizer's properties.                     *)
(***************************************************************************)
EndsInVersion(s) == \E suffix \in VersionSuffixes : endsWith(s, suffix)

\* the number of version suffixes stacked at the end of s, slashes between
\* them and after them not counted
RECURSIVE VersionSuffixCount(_)
VersionSuffixCount(s) ==
    LET t == stripTrailingSlashes(s)
    IN  IF endsWith(t, "/v1beta") THEN 1 + VersionSuffixCount(SubSeq(t, 1, Len(t) - 7))
        ELSE IF endsWith(t, "/v1") THEN 1 + VersionSuffixCount(SubSeq(t, 1, Len(t) - 3))
        ELSE 0

\* what is left of base, suffix and slashes once the suffix and the slashes
\* are gone
BaseOnly(base) == IF base = OfficialEndpoint THEN NoOverride ELSE Override(base)

\* the sampled endpoint is base, then the one version suffix to strip (or,
\* with no suffix appended, a base that ends in none)
StripsOneSuffix ==
    (unit.suffix # "" \/ ~EndsInVersion(unit.base)) => unit.once = BaseOnly(unit.base)

(***************************************************************************)
(* C14, as stated: for any endpoint string ending in /v1beta, /v1 or       *)
(* neither, followed by 0 to 3 trailing slashes, cleanBaseUrl is           *)
(* idempotent and strips exactly one version suffix.                       *)
(***************************************************************************)
C14_AsStated ==
    (unit.fn = "cleanBaseUrl" /\ unit.shape = "endpoint")
    => /\ unit.stage \in {"once", "twice"} => StripsOneSuffix
       /\ unit.stage = "twice" => unit.twice = unit.once

(***************************************************************************)
(* C14, amended: for an endpoint string made of a base, then /v1beta, /v1  *)
(* or nothing, then 0 to 3 trailing slashes, cleanBaseUrl strips exactly   *)
(* one version suffix, the last; it is idempotent when the string carries  *)
(* at most one version suffix, and when version suffixes are stacked a     *)
(* second application strips one more and gives a different result.        *)
(***************************************************************************)
C14_StripsOneSuffixIdempotentIfSingle ==
    (unit.fn = "cleanBaseUrl" /\ unit.shape = "endpoint")
    => /\ unit.stage \in {"once", "twice"} => StripsOneSuffix
       /\ (unit.stage = "twice" /\ VersionSuffixCount(trim(unit.url.url)) <= 1)
          => unit.twice = unit.once
       /\ (unit.stage = "twice" /\ VersionSuffixCount(trim(unit.url.url)) >= 2)
          => unit.twice # unit.once

\* a proxy root with /v1beta and three slashes was normalized twice, to the root
C14_Witness ==
    /\ unit.fn = "cleanBaseUrl"
    /\ unit.stage = "twice"
    /\ unit.url.url = "https://proxy.example/v1beta///"
    /\ unit.once = Override("https://proxy.example")
    /\ unit.twice = Override("https://proxy.example")

(***************************************************************************)
(* C15: cleanBaseUrl signals "no override" whenever the input is empty,    *)
(* white space only or absent, and whenever the string left after          *)
(* stripping the trailing slashes and one version suffix is the official   *)
(* endpoint; the official endpoint, with or without a trailing slash,      *)
(* never yields a literal URL.                                             *)
(***************************************************************************)
C15_NoOverrideForBlankAndOfficial ==
    (unit.fn = "cleanBaseUrl" /\ unit.stage \in {"once", "twice"})
    => /\ unit.shape \in {"blank", "absent"} => unit.once = NoOverride
       /\ (unit.shape = "endpoint" /\ unit.base = OfficialEndpoint) => unit.once = NoOverride
       /\ unit.once # Override(OfficialEndpoint)
       /\ unit.once = NoOverride
          => \/ unit.shape \in {"blank", "absent"}
             \/ unit.base = OfficialEndpoint

\* the official endpoint with one trailing slash gave no override
C15_Witness ==
    /\ unit.fn = "cleanBaseUrl"
    /\ unit.stage = "once"
    /\ unit.url.url = OfficialEndpoint \o "/"
    /\ unit.once = NoOverride

(***************************************************************************)
(* Vocabulary of the credential normalizer's properties.                   *)
(***************************************************************************)
\* the credential as the specification describes its normal form: without
\* the leading "Bearer " prefix, in any letter case, and without any white
\* space or byte-order mark
ClaimedKey(key) ==
    LET t == trimStart(key)
        rest == IF lower(Slice(t, 1, 7)) = "bearer " THEN SubSeq(t, 8, Len(t)) ELSE t
    IN  removeWhiteSpace(rest)

(***************************************************************************)
(* C16, as stated: cleanApiKey returns the credential with all white space *)
(* and byte-order marks removed and a leading "Bearer " prefix, in any     *)
(* letter case, stripped, so that "  Bearer sk-abc123<BOM> " becomes       *)
(* "sk-abc123"; an empty or white-space-only input gives the empty string. *)
(***************************************************************************)
C16_AsStated ==
    (unit.fn = "cleanApiKey" /\ unit.stage = "once")
    => /\ unit.result = ClaimedKey(unit.key)
       /\ unit.key = "  Bearer sk-abc123\f " => unit.result = "sk-abc123"
       /\ EmptyCredential(unit.key) => unit.result = ""

\* for the credential of the specification's example cleanApiKey returned the
\* key with its prefix, and the older cleanApiKey the prefix glued to the key
C16_Witness ==
    /\ unit.fn = "cleanApiKey"
    /\ unit.stage = "once"
    /\ unit.key = "  Bearer sk-abc123\f "
    /\ unit.result = "Bearer sk-abc123"
    /\ unit.legacy = "Bearersk-abc123"

(***************************************************************************)
(* Vocabulary of the classifier's properties.                              *)
(***************************************************************************)
\* the message formatError reads from what was thrown
MessageOf(error) == IF "message" \in DOMAIN error THEN error.message ELSE toString(error)

\* the patterns in the order of the specification, the network failure last
PatternCodes == <<"400", "401", "403", "404", "429", "500", "503">>
PatternTexts == <<Msg400, Msg401, Msg403, Msg404, Msg429, Msg500, Msg503, MsgNetwork>>

\* the patterns the message contains, by position
PatternsIn(msg) ==
    {i \in 1..7 : includes(msg, PatternCodes[i])}
    \cup (IF includes(msg, "Failed to fetch") \/ includes(msg, "NetworkError") THEN {8} ELSE {})

(***************************************************************************)
(* C17, as stated: for every error whose message contains "429",           *)
(* formatError returns the context label followed by the rate-limit/quota  *)
(* display string.                                                         *)
(***************************************************************************)
C17_AsStated ==
    (unit.fn = "formatError" /\ unit.stage = "once" /\ includes(MessageOf(unit.error), "429"))
    => unit.result = unit.context \o ": " \o Msg429

(***************************************************************************)
(* C17, amended: for every error whose message contains "429" and none of  *)
(* "400", "401", "403", "404", formatError returns the context label       *)
(* followed by the rate-limit/quota display string; when the message also  *)
(* contains one of these four, the text of the first of them is returned.  *)
(***************************************************************************)
C17_RateLimitUnlessEarlierPattern ==
    (unit.fn = "formatError" /\ unit.stage = "once" /\ includes(MessageOf(unit.error), "429"))
    => LET earlier == {i \in 1..4 : includes(MessageOf(unit.error), PatternCodes[i])}
       IN  IF earlier = {}
           THEN unit.result = unit.context \o ": " \o Msg429
           ELSE unit.result = unit.context \o ": "
                                \o PatternTexts[CHOOSE i \in earlier : \A j \in earlier : i <= j]

\* a rate-limit error of batch inference was classified
C17_Witness ==
    /\ unit.fn = "formatError"
    /\ unit.stage = "once"
    /\ unit.error = Err("sample", 0, "got status: 429 Too Many Requests")
    /\ unit.result = "Batch inference failed: " \o Msg429

(***************************************************************************)
(* C18: formatError is total and always returns a string that starts with  *)
(* the context label and ": "; the patterns are tried in the order 400,    *)
(* 401, 403, 404, 429, 500, 503, network failure, and the first one the    *)
(* message contains decides the text; a message that contains none is      *)
(* passed through unchanged after the prefix.                              *)
(***************************************************************************)
C18_FirstPatternDecides ==
    unit.fn = "formatError"
    => /\ unit.stage = "input" => ENABLED FormatError
       /\ unit.stage = "once"
          => LET msg == MessageOf(unit.error)
                 hits == PatternsIn(msg)
                 prefix == unit.context \o ": "
             IN  /\ Slice(unit.result, 1, Len(prefix)) = prefix
                 /\ hits # {}
                    => unit.result
                         = prefix \o PatternTexts[CHOOSE i \in hits : \A j \in hits : i <= j]
                 /\ hits = {} => unit.result = prefix \o msg

\* a message with a network marker and a 404 was given the text for 404
C18_Witness ==
    /\ unit.fn = "formatError"
    /\ unit.stage = "once"
    /\ unit.error = Err("sample", 0, "NetworkError: 404")
    /\ unit.result = unit.context \o ": " \o Msg404

(***************************************************************************)
(* Vocabulary of the settings' properties.                                 *)
(***************************************************************************)
\* the keys of the Settings schema
SchemaKeys ==
    {"apiKey", "baseUrl", "textModel", "imageModel", "customTextModels",
     "jianYingPath", "outputImgPath", "themeColor"}

KeysOf(obj) == {obj.keys[k] : k \in 1..Len(obj.keys)}

\* the record the settings were read from, the empty record when nothing
\* was stored
StoredRecord ==
    IF loaded.from.present THEN JSONparse(loaded.from.text).val ELSE JObj(<<>>, <<>>)

\* getSettingsSync returned, having read a record or nothing
LoadedRecord == loaded.called /\ loaded.ok /\ StoredRecord.t = "object"

\* every default key missing from storage has its default value
MissingKeysDefaulted ==
    \A key \in SchemaKeys \ KeysOf(StoredRecord) :
      FieldOf(loaded.val, key) = FieldOf(DEFAULT_SETTINGS, key)

(***************************************************************************)
(* C20, as stated: for any stored settings record, getSettingsSync returns *)
(* the record merged onto the defaults: every default key missing from     *)
(* storage takes its default value, every stored key overrides its         *)
(* default, and unknown legacy keys of the stored record are dropped, so   *)
(* the result contains only keys of the Settings schema.                   *)
(***************************************************************************)
C20_AsStated ==
    LoadedRecord
    => /\ MissingKeysDefaulted
       /\ \A key \in SchemaKeys \cap KeysOf(StoredRecord) :
            FieldOf(loaded.val, key) = FieldOf(StoredRecord, key)
       /\ KeysOf(loaded.val) \subseteq SchemaKeys

(***************************************************************************)
(* C20, amended: getSettingsSync returns the stored record merged onto the *)
(* defaults: every default key missing from storage takes its default      *)
(* value, every stored key overrides its default except a customTextModels *)
(* that is null or otherwise falsy, which becomes the empty list; of the   *)
(* unknown keys only apiKeys is dropped, every other key of the stored     *)
(* record is kept with its value, so the result may hold keys outside the  *)
(* Settings schema.                                                        *)
(***************************************************************************)
C20_MergeOntoDefaults ==
    LoadedRecord
    => /\ MissingKeysDefaulted
       /\ \A key \in KeysOf(StoredRecord) \ {"apiKeys"} :
            FieldOf(loaded.val, key)
              = IF key = "customTextModels" /\ ~truthy(FieldOf(StoredRecord, key))
                THEN JArr(<<>>)
                ELSE FieldOf(StoredRecord, key)
       /\ KeysOf(loaded.val) = SchemaKeys \cup (KeysOf(StoredRecord) \ {"apiKeys"})

\* settings stored by an older version were read: apiKeys is gone, the stored
\* key and model are kept, the theme colour is the default
C20_Witness ==
    /\ loaded.called /\ loaded.ok
    /\ "apiKeys" \in KeysOf(StoredRecord)
    /\ "apiKeys" \notin KeysOf(loaded.val)
    /\ FieldOf(loaded.val, "apiKey") = JStr("sk-old")
    /\ FieldOf(loaded.val, "textModel") = JStr("gemini-1.5-pro")
    /\ FieldOf(loaded.val, "themeColor") = JStr("#f97316")

(***************************************************************************)
(* C21: two orchestrated calls in flight at the same time, interleaving at *)
(* the network and backoff suspension points, share no retry state: each   *)
(* call's attempt counter starts at 0 and counts its own invocations only, *)
(* every wait of a call follows one of its own transient-marked failures   *)
(* and lasts baseDelay * 2^(its own retry index), and a call gives up on   *)
(* transient-marked failures only after its own maxRetries + 1             *)
(* invocations, whatever the other call does meanwhile.                    *)
(***************************************************************************)
C21_NoSharedRetryState ==
    \A c \in CallIds :
      LET r == calls[c]
          n == Len(r.log)
      IN  r.client.built
          => /\ r.attempt = IF r.pc = "await_op" THEN n ELSE n - 1
             /\ Len(r.waits) = IF r.pc = "backoff" THEN n ELSE r.attempt
             /\ \A i \in 1..Len(r.waits) :
                   /\ FailedTransient(r, i)
                   /\ r.waits[i] = r.baseDelay * pow2(i - 1)
             /\ (r.pc = "done" /\ r.outcome.kind = "raise" /\ FailedTransient(r, n))
                => n = r.maxRetries + 1

\* both calls are in flight: one is in its third backoff wait while the
\* other, started with no failure of its own, awaits its first invocation
C21_Witness ==
    /\ calls[1].pc = "backoff" /\ Len(calls[1].waits) = 3
    /\ calls[2].pc = "await_op" /\ calls[2].attempt = 0 /\ calls[2].log = <<>>

\* the texts the classifier has for the permanent transport errors
PermanentTexts == {Msg400, Msg401, Msg403, Msg404}

\* the i-th invocation of r's operation failed with an error the classifier
\* reports as a permanent transport error
FailedClassifiedPermanent(r, i) ==
    /\ r.log[i].kind = "raise"
    /\ classify(r.log[i].error.message) \in PermanentTexts

(***************************************************************************)
(* C22: permanent transport errors are not retried: whenever the           *)
(* classifier reports the error of an invocation as bad request (400),     *)
(* unauthorized (401), forbidden (403) or not found (404), that failure    *)
(* ends the call with no wait and no further invocation after it, for      *)
(* every error message, also one that carries a transient marker as well.  *)
(***************************************************************************)
C22_AsStated ==
    \A c \in CallIds :
      LET r == calls[c]
      IN  \A i \in 1..Len(r.log) :
            FailedClassifiedPermanent(r, i)
            => /\ r.pc = "done"
               /\ Len(r.log) = i
               /\ Len(r.waits) = i - 1

\* an orchestrated call whose operation failed four times with a message
\* carrying both 429 and 400 waited three times and then raised the
\* bad-request text
C22_Witness ==
    \E c \in CallsOf("executeGeminiCall") :
      /\ calls[c].pc = "done"
      /\ Len(calls[c].log) = 4
      /\ \A i \in 1..4 : /\ FailedClassifiedPermanent(calls[c], i)
                          /\ calls[c].log[i].error.message = "429 Too Many Requests (request 4001)"
      /\ calls[c].waits = <<2000, 4000, 8000>>
      /\ calls[c].outcome = Raise(Err("executeGeminiCall", 0, "Inference failed: " \o Msg400))

(***************************************************************************)
(* C24: for every successful model response, inferBatchPrompts returns     *)
(* exactly one entry per input segment: the returned list is as long as    *)
(* the list of segments, whatever the length of the array of the response. *)
(***************************************************************************)
C24_AsStated ==
    \A c \in CallsOf("inferBatchPrompts") :
      LET r == calls[c]
          n == Len(r.transports)
      IN  (r.pc = "done" /\ n > 0 /\ r.transports[n].ok)
          => /\ r.outcome.kind = "return"
             /\ isArray(r.outcome.value)
             /\ Len(r.outcome.value.items) = r.nseg

\* inferBatchPrompts was given three segments and a response holding an
\* array of one entry, and returned a list of one entry
C24_Witness ==
    \E c \in CallsOf("inferBatchPrompts") :
      /\ calls[c].pc = "done"
      /\ calls[c].nseg = 3
      /\ Len(calls[c].transports) = 1
      /\ calls[c].transports[1].ok
      /\ calls[c].transports[1].text = Fence \o "json\n[{\"prompt\":\"a\"}]\n" \o Fence
      /\ calls[c].outcome
           = Return(JArr(<< JObj(<<"prompt", "activeNames">>, <<JStr("a"), JArr(<<>>)>>) >>))

(***************************************************************************)
(* C25: breakdownScript always returns a list of strings: a response that  *)
(* parses as JSON but is no array of strings is never handed to the caller *)
(* as the result; it gives the lines of the script like any other failure. *)
(***************************************************************************)
C25_AsStated ==
    \A c \in CallsOf("breakdownScript") :
      LET r == calls[c]
          n == Len(r.transports)
      IN  r.pc = "done"
          => /\ r.outcome.kind = "return"
             /\ isArray(r.outcome.value)
             /\ \A i \in 1..Len(r.outcome.value.items) : r.outcome.value.items[i].t = "string"
             /\ (n > 0 /\ r.transports[n].ok /\ r.transports[n].text = "{\"shots\":[\"s1\"]}")
                => r.outcome.value = scriptLines(r.script)

\* breakdownScript was given a script of two lines and a response holding
\* an object, and returned the object
C25_Witness ==
    \E c \in CallsOf("breakdownScript") :
      /\ calls[c].pc = "done"
      /\ calls[c].script = "a\nb"
      /\ Len(calls[c].transports) = 1
      /\ calls[c].transports[1].text = "{\"shots\":[\"s1\"]}"
      /\ calls[c].outcome = Return(JObj(<<"shots">>, <<JArr(<<JStr("s1")>>)>>))

(***************************************************************************)
(* C23: the wait retryOperation performs before retry number i (attempt    *)
(* index i = 0, 1, 2, ...) is exactly baseDelay * 2^i: each wait is double *)
(* the one before, with no jitter and no upper cap, and no wait follows    *)
(* the final attempt.                                                      *)
(***************************************************************************)
C23_WaitsDoubleFromBaseDelay ==
    \A c \in CallIds :
      LET r == calls[c]
      IN  /\ \A i \in 1..Len(r.waits) :
                /\ r.waits[i] = r.baseDelay * pow2(i - 1)
                /\ i > 1 => r.waits[i] = 2 * r.waits[i - 1]
          /\ Len(r.waits) <= r.maxRetries
          /\ Len(r.log) = r.maxRetries + 1
             => r.pc = "done" /\ Len(r.waits) = r.maxRetries

\* retryOperation with three retries and a base delay of 500 ms waited
\* 500, 1000 and 2000 ms and raised after the fourth failure with no
\* further wait
C23_Witness ==
    \E c \in CallsOf("retryOperation") :
      /\ calls[c].pc = "done"
      /\ calls[c].maxRetries = 3
      /\ calls[c].baseDelay = 500
      /\ calls[c].waits = <<500, 1000, 2000>>
      /\ Len(calls[c].log) = 4
      /\ calls[c].outcome.kind = "raise"

(***************************************************************************)
(* C30: every orchestrated call terminates: provided each invocation of    *)
(* the operation eventually returns or raises, a call that was started     *)
(* eventually returns a value or raises an error, after at most            *)
(* maxRetries + 1 invocations of the operation and at most maxRetries      *)
(* backoff waits, for every sequence of transient and other outcomes.      *)
(***************************************************************************)
C30_EveryCallTerminates ==
    /\ [](\A c \in CallIds :
            /\ Len(calls[c].log) <= calls[c].maxRetries + 1
            /\ Len(calls[c].waits) <= calls[c].maxRetries)
    /\ \A c \in CallIds :
          (calls[c].pc # "idle")
          ~> (calls[c].pc = "done" /\ calls[c].outcome.kind \in {"return", "raise"})

\* an orchestrated call returned the value of its fourth invocation, after
\* three backoff waits
C30_Witness ==
    \E c \in CallsOf("executeGeminiCall") :
      /\ calls[c].pc = "done"
      /\ calls[c].outcome.kind = "return"
      /\ Len(calls[c].log) = 4
      /\ Len(calls[c].waits) = 3

\* the values of the custom models of the form, in order
CustomValues == [i \in 1..Len(form.localSettings.customTextModels) |->
                    form.localSettings.customTextModels[i].value]

\* handleAddCustomModel has nothing to add: the trimmed input is empty, a
\* custom model or a built-in model
AddRefused ==
    LET val == trim(form.customModelInput)
    IN  \/ val = ""
        \/ \E i \in 1..Len(CustomValues) : CustomValues[i] = val
        \/ isBuiltIn(val)

(***************************************************************************)
(* C26: after any sequence of handleAddCustomModel and                     *)
(* handleRemoveCustomModel actions, starting from a custom list with       *)
(* unique values none of which is built in, the custom list has no two     *)
(* entries with the same value and no entry with a built-in value; an add  *)
(* of an existing or built-in value, or of an empty or white-space-only    *)
(* value, leaves the list and the selected model unchanged.                *)
(***************************************************************************)
C26_CustomListUniqueAndDisjoint ==
    /\ [](/\ \A i, j \in 1..Len(CustomValues) : CustomValues[i] = CustomValues[j] => i = j
          /\ \A i \in 1..Len(CustomValues) : ~isBuiltIn(CustomValues[i]))
    /\ [][(ClickAddCustomModel /\ AddRefused)
          => /\ form'.localSettings.customTextModels = form.localSettings.customTextModels
             /\ form'.localSettings.textModel = form.localSettings.textModel]_vars

\* the form holds the custom models gpt-4o and my-model, the second just
\* added from a padded input, and the same text was typed once more
C26_Witness ==
    /\ form.isOpen
    /\ CustomValues = <<"gpt-4o", "my-model">>
    /\ form.localSettings.textModel = "my-model"
    /\ form.customModelInput = " my-model "
    /\ AddRefused

(***************************************************************************)
(* C27: in the settings form, after any sequence of add-custom-model,      *)
(* remove-custom-model and select-model actions, starting from a state     *)
(* whose selected text model is a built-in or a custom model, the selected *)
(* text model is a built-in model or one of the current custom models:     *)
(* adding a model selects it, and removing the selected custom model       *)
(* selects the first built-in model.                                       *)
(***************************************************************************)
C27_SelectedModelIsListed ==
    /\ [](\/ isBuiltIn(form.localSettings.textModel)
          \/ \E i \in 1..Len(CustomValues) : CustomValues[i] = form.localSettings.textModel)
    /\ [][/\ (ClickAddCustomModel /\ ~AddRefused)
             => /\ form'.localSettings.textModel = trim(form.customModelInput)
                /\ form'.localSettings.customTextModels
                     = Append(form.localSettings.customTextModels,
                              [value |-> trim(form.customModelInput),
                               label |-> trim(form.customModelInput)])
          /\ ClickRemoveCustomModel
             => /\ form'.localSettings.textModel = DEFAULT_TEXT_MODELS[1]
                /\ \A i \in 1..Len(form'.localSettings.customTextModels) :
                      form'.localSettings.customTextModels[i].value
                        # form.localSettings.textModel]_vars

\* the selected custom model gpt-4o was removed: the list is empty and the
\* first built-in model is selected
C27_Witness ==
    /\ form.isOpen
    /\ form.stored.textModel = "gpt-4o"
    /\ CustomValues = <<>>
    /\ form.localSettings.textModel = DEFAULT_TEXT_MODELS[1]

(***************************************************************************)
(* C28: in the settings form, whenever keyStatus is 'valid' or 'invalid',  *)
(* the last completed connectivity test was run with the credential that   *)
(* is in the input field now, even when the user edits the credential      *)
(* (which resets keyStatus to null) while a test started by handleTestKey  *)
(* is in flight.                                                           *)
(***************************************************************************)
C28_AsStated ==
    form.keyStatus \in {"valid", "invalid"}
    => /\ form.test.started
       /\ ~form.test.running
       /\ form.test.key = trim(form.localSettings.apiKey)

\* a test was started with sk-abc123, the credential was edited to sk-other
\* during the test, and the test then succeeded: the field holds sk-other
\* and the status is valid
C28_Witness ==
    /\ form.isOpen
    /\ form.test.started
    /\ ~form.test.running
    /\ form.test.key = "sk-abc123"
    /\ form.test.ok
    /\ form.localSettings.apiKey = "sk-other"
    /\ form.keyStatus = "valid"
    /\ ~form.testing

\* the stored projects, in order
StoredProjects == getProjectsSync(localStorage).val.items

\* the ids of the list are pairwise different
UniqueIds(projects) ==
    \A i, j \in 1..Len(projects) : projectId(projects[i]) = projectId(projects[j]) => i = j

\* what saveSingleProject(project) has to make of the list old
SavedAsSpecified(old, new, project) ==
    IF \E i \in 1..Len(old) : projectId(old[i]) = projectId(project)
    THEN /\ Len(new) = Len(old)
         /\ \A i \in 1..Len(old) :
               new[i] = IF projectId(old[i]) = projectId(project) THEN project ELSE old[i]
    ELSE /\ Len(new) = Len(old) + 1
         /\ new[1] = project
         /\ \A i \in 1..Len(old) : new[i + 1] = old[i]

\* what deleteProject(id) has to make of the list old: the projects with
\* another id, as they were and in their order
DeletedAsSpecified(old, new, id) ==
    /\ \A i \in 1..Len(new) : projectId(new[i]) # JStr(id)
    /\ new = SelectSeq(old, LAMBDA p : projectId(p) # JStr(id))

(***************************************************************************)
(* C29: after any sequence of saveSingleProject and deleteProject calls    *)
(* starting from a stored project list with unique ids, the stored list    *)
(* has unique ids; saveSingleProject with a stored id replaces that        *)
(* project in place and leaves the number and order of projects unchanged, *)
(* with a new id it puts the project at the front and leaves the others    *)
(* unchanged; deleteProject(id) leaves no project with that id and changes *)
(* no other project.                                                       *)
(***************************************************************************)
C29_ProjectIdsStayUnique ==
    /\ getProjectsSync(localStorage).ok
    /\ UniqueIds(StoredProjects)
    /\ unit.fn = "saveSingleProject"
       => SavedAsSpecified(unit.projects.val.items, StoredProjects, unit.project)
    /\ unit.fn = "deleteProject"
       => DeletedAsSpecified(unit.projects.val.items, StoredProjects, unit.id)

\* p1 was replaced in its place, between p3 and p2, by a project with
\* another name
C29_Witness ==
    /\ unit.fn = "saveSingleProject"
    /\ unit.project = Project("p1", "Ep \"2\"")
    /\ unit.projects.val.items
         = <<Project("p3", "Pilot"), Project("p1", "Pilot"), Project("p2", "Ep \"2\"")>>
    /\ StoredProjects
         = <<Project("p3", "Pilot"), Project("p1", "Ep \"2\""), Project("p2", "Ep \"2\"")>>

====
